---- MODULE Spec2Model ----
(***************************************************************************)
(* A model of the zsm plugin (zoxide session manager for Zellij).          *)
(*                                                                         *)
(* Strings are sequences of one-character strings, so that every string    *)
(* operation of the source (split, join, starts_with, truncate, parse,     *)
(* format) is computed the way the code computes it.  Option<T> is a       *)
(* sequence: <<>> is None and <<v>> is Some(v).                             *)
(***************************************************************************)
EXTENDS Integers, Sequences, FiniteSets, TLC

VARIABLES
    config,               \* PluginState.config (state.rs:13, config.rs:5-14)
    session_manager,      \* PluginState.session_manager (manager.rs:7-14)
    zoxide_directories,   \* PluginState.zoxide_directories (state.rs:17)
    search_engine,        \* PluginState.search_engine (search.rs:17-28)
    new_session_info,     \* PluginState.new_session_info (state.rs:21)
    active_screen,        \* PluginState.active_screen (state.rs:23)
    error,                \* PluginState.error (state.rs:25)
    current_session_name, \* PluginState.current_session_name (state.rs:29)
    request_ids,          \* PluginState.request_ids (state.rs:31)
    selected_index,       \* PluginState.selected_index (state.rs:33)
    host_calls,           \* calls issued to the Zellij host, oldest first
    panicked,             \* TRUE once a handler has panicked (the plugin is dead)
    call                  \* the last direct call of a pure function and its result

vars == <<config, session_manager, zoxide_directories, search_engine,
          new_session_info, active_screen, error, current_session_name,
          request_ids, selected_index, host_calls, panicked, call>>

None == <<>>
Some(v) == <<v>>
IsSome(o) == o # <<>>
Unwrap(o) == o[1]

Min(a, b) == IF a < b THEN a ELSE b

\* let v = ...; F(v)
With(v, F(_)) == F(v)

\* The least element of a set of numbers, otherwise when it is empty
MinOr(S, otherwise) ==
    IF S = {} THEN otherwise ELSE CHOOSE k \in S : \A m \in S : k <= m

(***************************************************************************)
(* Strings                                                                 *)
(***************************************************************************)

\* The UTF-8 width of a character: the model's alphabet is ASCII plus the
\* two-byte letter e-acute and the three-byte symbols of the display text.
CharBytes(c) ==
    IF c = "é" THEN 2
    ELSE IF c \in {"●", "○", "↺"} THEN 3
    ELSE 1

\* str::len(): the length in bytes, the sum of CharBytes over the characters.
BLen(s) ==
    Len(s) + Cardinality({i \in 1..Len(s) : CharBytes(s[i]) = 2})
           + 2 * Cardinality({i \in 1..Len(s) : CharBytes(s[i]) = 3})

\* str::split(pattern) for a pattern that is a set of characters: the pieces
\* between consecutive delimiters (one more piece than there are delimiters).
Split(s, D) ==
    LET at == {i \in 1..Len(s) : s[i] \in D}
        n == Cardinality(at)
        edge(k) == IF k = 0 THEN 0
                   ELSE IF k = n + 1 THEN Len(s) + 1
                   ELSE CHOOSE p \in at : Cardinality({q \in at : q < p}) = k - 1
    IN [k \in 1..(n + 1) |-> SubSeq(s, edge(k - 1) + 1, edge(k) - 1)]

\* [String]::join(separator)
RECURSIVE Join(_, _)
Join(segs, sep) ==
    IF segs = <<>> THEN <<>>
    ELSE IF Len(segs) = 1 THEN segs[1]
    ELSE segs[1] \o sep \o Join(Tail(segs), sep)

\* str::starts_with(prefix)
StartsWith(s, p) == Len(p) <= Len(s) /\ SubSeq(s, 1, Len(p)) = p

\* str::contains(char)
Contains(s, c) == \E i \in 1..Len(s) : s[i] = c

\* str::chars().nth(n): the n-th character (from 0), "" when there is none.
CharsNth(s, n) == IF n + 1 <= Len(s) THEN s[n + 1] ELSE ""

\* str::trim_end_matches('/')
RECURSIVE TrimEndSlashes(_)
TrimEndSlashes(s) ==
    IF s # <<>> /\ s[Len(s)] = "/" THEN TrimEndSlashes(SubSeq(s, 1, Len(s) - 1))
    ELSE s

WhiteSpace == {" ", "\t", "\r", "\n"}

RECURSIVE TrimStart(_)
TrimStart(s) == IF s # <<>> /\ Head(s) \in WhiteSpace THEN TrimStart(Tail(s)) ELSE s

RECURSIVE TrimEnd(_)
TrimEnd(s) ==
    IF s # <<>> /\ s[Len(s)] \in WhiteSpace THEN TrimEnd(SubSeq(s, 1, Len(s) - 1))
    ELSE s

\* str::trim()
Trim(s) == TrimEnd(TrimStart(s))

\* The value a panicking string operation yields in place of a string.
Panic == <<"!panic">>

\* String::truncate(new_len): no effect when new_len >= len; panics when
\* new_len does not lie on a character boundary.
TruncateBytes(s, n) ==
    IF n >= BLen(s) THEN s
    ELSE IF \E j \in 0..Len(s) : BLen(SubSeq(s, 1, j)) = n
         THEN SubSeq(s, 1, CHOOSE j \in 0..Len(s) : BLen(SubSeq(s, 1, j)) = n)
         ELSE Panic

Digits == <<"0", "1", "2", "3", "4", "5", "6", "7", "8", "9">>
DigitSet == {Digits[i] : i \in 1..10}
DigitVal(c) == (CHOOSE i \in 1..10 : Digits[i] = c) - 1

Letters == {"a", "b", "c", "d", "e", "f", "g", "h", "i", "j", "k", "l", "m",
            "n", "o", "p", "q", "r", "s", "t", "u", "v", "w", "x", "y", "z",
            "A", "B", "C", "D", "E", "F", "G", "H", "I", "J", "K", "L", "M",
            "N", "O", "P", "Q", "R", "S", "T", "U", "V", "W", "X", "Y", "Z",
            "é"}

\* char::is_alphabetic()
IsAlphabetic(c) == c \in Letters

\* format!("{}", n) for a non-negative integer
RECURSIVE ToDecimal(_)
ToDecimal(n) ==
    IF n < 10 THEN <<Digits[n + 1]>>
    ELSE Append(ToDecimal(n \div 10), Digits[(n % 10) + 1])

(***************************************************************************)
(* Paths (std::path::Path)                                                 *)
(***************************************************************************)

RootDir == <<"/">>
CurDir == <<".">>
ParentDir == <<".", ".">>

\* Path::components(): the root of an absolute path, then the non-empty
\* components; a "." is kept only at the start of a relative path.
PathComponents(p) ==
    LET raw == Split(p, {"/"})
        keep == {i \in 1..Len(raw) :
                    /\ raw[i] # <<>>
                    /\ (raw[i] = CurDir => (i = 1))}
        F[i \in 0..Len(raw)] ==
            IF i = 0 THEN <<>>
            ELSE IF i \in keep THEN Append(F[i - 1], raw[i]) ELSE F[i - 1]
    IN (IF p # <<>> /\ p[1] = "/" THEN <<RootDir>> ELSE <<>>) \o F[Len(raw)]

\* Path::file_name().unwrap_or_default(): the last component when it is a
\* normal one, the empty string otherwise.
FileName(p) ==
    With(PathComponents(p), LAMBDA comps :
        IF comps = <<>> THEN <<>>
        ELSE IF comps[Len(comps)] \in {RootDir, CurDir, ParentDir} THEN <<>>
        ELSE comps[Len(comps)])

\* Path::starts_with(base): component-wise prefix.
PathStartsWith(p, base) ==
    With(PathComponents(p), LAMBDA pc :
    With(PathComponents(base), LAMBDA bc :
        Len(bc) <= Len(pc) /\ SubSeq(pc, 1, Len(bc)) = bc))

(***************************************************************************)
(* Smart session names (main.rs)                                           *)
(***************************************************************************)

max_length == 29

\* The fold of normalize_path's loop over base_paths: [idx, len] of the
\* longest base path found so far (idx = 0: none).
RECURSIVE LongestMatchFrom(_, _, _, _)
LongestMatchFrom(path, base_paths, i, best) ==
    IF i > Len(base_paths) THEN best
    ELSE With(TrimEndSlashes(base_paths[i]), LAMBDA normalized_base :
             LongestMatchFrom(path, base_paths, i + 1,
                IF /\ StartsWith(path, normalized_base)
                   /\ \/ BLen(path) = BLen(normalized_base)
                      \/ CharsNth(path, BLen(normalized_base)) = "/"
                   /\ BLen(normalized_base) > best.len
                THEN [idx |-> i, len |-> BLen(normalized_base)] ELSE best))

\* stripped.strip_prefix('/').unwrap_or(stripped)
StripPrefixSlash(s) == IF s # <<>> /\ s[1] = "/" THEN Tail(s) ELSE s

\* main.rs:371-387
StripBase(path, normalized_base) ==
    IF path = normalized_base THEN path
    ELSE With(StripPrefixSlash(SubSeq(path, Len(normalized_base) + 1, Len(path))),
              LAMBDA stripped : IF stripped # <<>> THEN stripped ELSE path)

NormalizePathWith(path, base_paths) ==
    IF base_paths = <<>> THEN path
    ELSE With(LongestMatchFrom(path, base_paths, 1, [idx |-> 0, len |-> 0]),
              LAMBDA longest_match :
                  IF longest_match.idx = 0 THEN path
                  ELSE StripBase(path, TrimEndSlashes(base_paths[longest_match.idx])))

normalize_path(path) == NormalizePathWith(path, config.base_paths)

\* normalized_path.split('/').filter(|s| !s.is_empty()).collect()
Segments(p) == SelectSeq(Split(p, {"/"}), LAMBDA s : s # <<>>)

\* &segments[segments.len().saturating_sub(k)..]
LastK(segs, k) == SubSeq(segs, Len(segs) - Min(k, Len(segs)) + 1, Len(segs))

FirstCharOrX(part) == IF part = <<>> THEN <<"x">> ELSE <<part[1]>>

\* The loop of abbreviate_segment over chars[1..] (main.rs:481-491): the
\* first character, then the alphabetic characters that follow it, one at a
\* time, for as long as the abbreviation is shorter than 3 bytes.
AbbreviateLoop(chars) ==
    With(SelectSeq(Tail(chars), IsAlphabetic), LAMBDA alphabetic :
        <<chars[1]>> \o
        SubSeq(alphabetic, 1,
               MinOr({k \in 0..Len(alphabetic) :
                         BLen(<<chars[1]>> \o SubSeq(alphabetic, 1, k)) >= 3},
                     Len(alphabetic))))

AbbreviateWithoutThreshold(segment) ==
    IF Contains(segment, "-") \/ Contains(segment, "_")
    THEN With(Split(segment, {"-", "_"}), LAMBDA parts :
             Join([i \in 1..Len(parts) |-> FirstCharOrX(parts[i])], <<"-">>))
    ELSE segment

abbreviate_segment(segment) ==
    IF BLen(segment) <= 3 THEN segment
    ELSE IF Contains(segment, "-") \/ Contains(segment, "_")
    THEN With(Split(segment, {"-", "_"}), LAMBDA parts :
             Join([i \in 1..Len(parts) |-> FirstCharOrX(parts[i])], <<"-">>))
    ELSE IF Len(segment) > 3
    THEN With(AbbreviateLoop(segment), LAMBDA abbreviated :
             IF BLen(abbreviated) < 2 /\ Len(segment) > 1
             THEN Append(abbreviated, segment[2])
             ELSE abbreviated)
    ELSE segment

\* while current_length > max_length && result_segments.len() > 1 { remove(0) }
RECURSIVE DropFromLeft(_, _)
DropFromLeft(result_segments, separator) ==
    IF BLen(Join(result_segments, separator)) > max_length /\ Len(result_segments) > 1
    THEN DropFromLeft(Tail(result_segments), separator)
    ELSE result_segments

\* The first half of apply_smart_truncation (main.rs:406-428): the segments
\* after abbreviation, removal from the left and truncation of a lone segment.
TruncateInitial(initial, separator) ==
    IF BLen(Join(initial, separator)) > max_length
    THEN With(DropFromLeft([i \in 1..Len(initial) |-> abbreviate_segment(initial[i])],
                           separator),
              LAMBDA dropped :
                  IF BLen(Join(dropped, separator)) > max_length /\ Len(dropped) = 1
                  THEN <<TruncateBytes(dropped[1], max_length)>>
                  ELSE dropped)
    ELSE initial

\* The second loop of apply_smart_truncation (main.rs:433-449); left_index is
\* the 0-based index of the source.
RECURSIVE ExtendLeft(_, _, _, _)
ExtendLeft(segments, result_segments, left_index, separator) ==
    IF BLen(Join(result_segments, separator)) < max_length /\ left_index > 0
    THEN With(<<abbreviate_segment(segments[left_index + 1])>> \o result_segments,
              LAMBDA test_segments :
                  IF BLen(Join(test_segments, separator)) <= max_length
                  THEN ExtendLeft(segments, test_segments,
                                  IF left_index > 0 THEN left_index - 1 ELSE 0, separator)
                  ELSE result_segments)
    ELSE result_segments

\* The segments apply_smart_truncation joins into its result; <<Panic>> when
\* the truncation of the lone segment panics.
TruncatedSegments(segments, min_segments, separator) ==
    With(TruncateInitial(LastK(segments, min_segments), separator),
         LAMBDA result_segments :
             IF result_segments = <<Panic>> THEN <<Panic>>
             ELSE ExtendLeft(segments, result_segments,
                             IF Len(segments) > min_segments + 1
                             THEN Len(segments) - (min_segments + 1) ELSE 0,
                             separator))

ApplySmartTruncationWith(segments, min_segments, separator) ==
    With(TruncatedSegments(segments, min_segments, separator),
         LAMBDA result_segments :
             IF result_segments = <<Panic>> THEN Panic
             ELSE TruncateBytes(Join(result_segments, separator), max_length))

apply_smart_truncation(segments, min_segments) ==
    ApplySmartTruncationWith(segments, min_segments, config.session_separator)

is_nested_in_zoxide_directories(path, all_directories) ==
    \E j \in 1..Len(all_directories) :
        /\ all_directories[j].directory # path
        /\ PathStartsWith(normalize_path(path), normalize_path(all_directories[j].directory))

\* main.rs:292-316: no other member of the conflict set that has at least
\* context_length segments yields the same name at this context length.
IsUniqueAmongEarlier(path, segments, all_directories, conflict_indices, context_length) ==
    \A n \in 1..Len(conflict_indices) :
        \/ \E m \in 1..conflict_indices[n] : all_directories[m].directory = path
        \/ With(Segments(normalize_path(all_directories[conflict_indices[n]].directory)),
                LAMBDA conflict_segments :
                    \/ Len(conflict_segments) < context_length
                    \/ Join(LastK(segments, context_length), config.session_separator)
                         # Join(LastK(conflict_segments, context_length),
                                config.session_separator))

IsUniqueAt(path, segments, all_directories, conflict_indices, context_length) ==
    \A n \in 1..Len(conflict_indices) :
        \/ all_directories[conflict_indices[n]].directory = path
        \/ With(Segments(normalize_path(all_directories[conflict_indices[n]].directory)),
                LAMBDA conflict_segments :
                    \/ Len(conflict_segments) < context_length
                    \/ Join(LastK(segments, context_length), config.session_separator)
                         # Join(LastK(conflict_segments, context_length),
                                config.session_separator))

RequiredSegmentsFromTwo(path, segments, all_directories, conflict_indices) ==
    With(is_nested_in_zoxide_directories(path, all_directories), LAMBDA is_nested :
    With(IF is_nested THEN Min(2, Len(segments)) ELSE 1, LAMBDA initial :
        MinOr({context_length \in initial..Len(segments) :
                  IsUniqueAt(path, segments, all_directories, conflict_indices,
                             context_length)},
              initial)))

\* main.rs:277-327: the number of trailing segments the name is built from.
RequiredSegments(path, segments, all_directories, conflict_indices) ==
    With(is_nested_in_zoxide_directories(path, all_directories), LAMBDA is_nested :
    With(IF is_nested THEN Min(3, Len(segments)) ELSE 1, LAMBDA initial :
    With(MinOr({context_length \in initial..Len(segments) :
                   IsUniqueAt(path, segments, all_directories, conflict_indices,
                              context_length)},
               initial),
         LAMBDA found :
             IF is_nested /\ found < 2 THEN Min(2, Len(segments)) ELSE found)))

generate_context_aware_name(path, all_directories, conflict_indices) ==
    With(Segments(normalize_path(path)), LAMBDA segments :
        IF segments = <<>> THEN <<"r", "o", "o", "t">>
        ELSE With(RequiredSegments(path, segments, all_directories, conflict_indices),
                  LAMBDA required_segments :
             With(Join(LastK(segments, required_segments), config.session_separator),
                  LAMBDA session_name :
                      IF BLen(session_name) > max_length
                      THEN apply_smart_truncation(segments, required_segments)
                      ELSE session_name)))

\* basename_groups[basename of directories[i]]: the indices with that basename
BasenameGroup(directories, i) ==
    SelectSeq([j \in 1..Len(directories) |-> j],
              LAMBDA j : FileName(directories[j].directory) = FileName(directories[i].directory))

\* The session_name generate_smart_session_names assigns to directories[i].
\* Every group reads only the directory fields, which the pass never writes,
\* so the names do not depend on the iteration order of the hash map.
SmartSessionName(directories, i) ==
    With(BasenameGroup(directories, i), LAMBDA indices :
        IF Len(indices) = 1
           /\ ~is_nested_in_zoxide_directories(directories[i].directory, directories)
        THEN FileName(directories[i].directory)
        ELSE generate_context_aware_name(directories[i].directory, directories, indices))

\* main.rs:208-229, one assignment after the other: the names are written
\* into the list in the given order of the indices.  The hash map visits the
\* groups in an order of its own and each group in the order of the list.
RECURSIVE AssignInOrder(_, _)
AssignInOrder(directories, order) ==
    IF order = <<>> THEN directories
    ELSE AssignInOrder([directories EXCEPT
                           ![Head(order)].session_name =
                               SmartSessionName(directories, Head(order))],
                       Tail(order))

generate_smart_session_names(directories) ==
    [i \in 1..Len(directories) |->
        [directories[i] EXCEPT !.session_name = SmartSessionName(directories, i)]]

(***************************************************************************)
(* Configuration (config.rs)                                               *)
(***************************************************************************)

\* paths.split('|').map(|p| p.trim().to_string()).filter(|p| !p.is_empty())
ParseBasePaths(paths) ==
    With(Split(paths, {"|"}), LAMBDA parts :
        SelectSeq([i \in 1..Len(parts) |-> Trim(parts[i])], LAMBDA p : p # <<>>))

\* configuration: a map from the option names to their (string) values
from_zellij_config(configuration) ==
    [default_layout |->
        IF "default_layout" \in DOMAIN configuration
        THEN Some(configuration["default_layout"]) ELSE None,
     session_separator |->
        IF "session_separator" \in DOMAIN configuration
        THEN configuration["session_separator"] ELSE <<".">>,
     show_resurrectable_sessions |->
        IF "show_resurrectable_sessions" \in DOMAIN configuration
        THEN configuration["show_resurrectable_sessions"] = <<"t", "r", "u", "e">>
        ELSE FALSE,
     base_paths |->
        IF "base_paths" \in DOMAIN configuration
        THEN ParseBasePaths(configuration["base_paths"]) ELSE <<>>]

(***************************************************************************)
(* The ranking source (main.rs:153-187)                                    *)
(***************************************************************************)

\* str::lines(): split at "\n", a final empty line dropped, a trailing "\r"
\* of a line removed.
Lines(output) ==
    With(Split(output, {"\n"}), LAMBDA raw :
    With(IF raw[Len(raw)] = <<>> THEN SubSeq(raw, 1, Len(raw) - 1) ELSE raw, LAMBDA cut :
        [i \in 1..Len(cut) |->
            IF cut[i] # <<>> /\ cut[i][Len(cut[i])] = "\r"
            THEN SubSeq(cut[i], 1, Len(cut[i]) - 1) ELSE cut[i]]))

\* str::splitn(2, ' ')
SplitN2(s) ==
    IF Contains(s, " ")
    THEN LET i == CHOOSE i \in 1..Len(s) : s[i] = " " /\ \A j \in 1..(i - 1) : s[j] # " "
         IN <<SubSeq(s, 1, i - 1), SubSeq(s, i + 1, Len(s))>>
    ELSE <<s>>

RECURSIVE DecimalValue(_)
DecimalValue(ds) ==
    IF ds = <<>> THEN 0
    ELSE 10 * DecimalValue(SubSeq(ds, 1, Len(ds) - 1)) + DigitVal(ds[Len(ds)])

AllDigits(s) == \A i \in 1..Len(s) : s[i] \in DigitSet

\* The first three fractional digits as thousandths.
FractionMilli(ds) ==
    LET d(i) == IF i <= Len(ds) THEN DigitVal(ds[i]) ELSE 0
    IN 100 * d(1) + 10 * d(2) + d(3)

\* str::parse::<f64>() on decimal notation: an optional sign, digits with an
\* optional fraction, or "NaN".  Ok values are [nan, milli] with milli the
\* number in thousandths; <<>> is Err.  Exponents and infinities do not occur
\* in the rankings the model feeds in.
ParseUnsigned(neg, int_part, frac_part) ==
    IF AllDigits(int_part) /\ AllDigits(frac_part) /\ int_part \o frac_part # <<>>
    THEN Some([nan |-> FALSE,
               milli |-> (IF neg THEN 0 - 1 ELSE 1)
                         * (1000 * DecimalValue(int_part) + FractionMilli(frac_part))])
    ELSE None

ParseF64(s) ==
    With(IF s # <<>> /\ s[1] \in {"+", "-"} THEN Tail(s) ELSE s, LAMBDA body :
        IF body = <<"N", "a", "N">> THEN Some([nan |-> TRUE, milli |-> 0])
        ELSE With(Split(body, {"."}), LAMBDA parts :
                 IF Len(parts) > 2 THEN None
                 ELSE ParseUnsigned(s # <<>> /\ s[1] = "-", parts[1],
                                    IF Len(parts) = 2 THEN parts[2] ELSE <<>>)))

RECURSIVE ParseLinesUntilMalformed(_)
ParseLinesUntilMalformed(lines) ==
    IF lines = <<>> THEN <<>>
    ELSE With(SplitN2(Trim(Head(lines))), LAMBDA parts :
             IF Len(parts) = 2 /\ IsSome(ParseF64(parts[1]))
             THEN <<[ranking |-> Unwrap(ParseF64(parts[1])), directory |-> parts[2],
                     session_name |-> <<>>]>>
                  \o ParseLinesUntilMalformed(Tail(lines))
             ELSE <<>>)

\* main.rs:156-174: the candidates of the lines that parse, in line order
RECURSIVE ParseLines(_)
ParseLines(lines) ==
    IF lines = <<>> THEN <<>>
    ELSE With(SplitN2(Trim(Head(lines))), LAMBDA parts :
             IF Trim(Head(lines)) # <<>> /\ Len(parts) = 2
             THEN With(ParseF64(parts[1]), LAMBDA score :
                      IF IsSome(score)
                      THEN <<[ranking |-> Unwrap(score), directory |-> parts[2],
                              session_name |-> <<>>]>>
                      ELSE <<>>)
             ELSE <<>>)
         \o ParseLines(Tail(lines))

\* b.ranking.partial_cmp(&a.ranking).unwrap_or(Equal) = Less: a sorts before b
RankedBefore(a, b) ==
    /\ ~a.ranking.nan /\ ~b.ranking.nan
    /\ b.ranking.milli < a.ranking.milli

\* Insertion of x into a sorted sequence behind every element that it does
\* not strictly precede (slice::sort_by is stable).
RECURSIVE InsertSorted(_, _)
InsertSorted(sorted, x) ==
    IF sorted = <<>> THEN <<x>>
    ELSE IF RankedBefore(x, sorted[Len(sorted)])
    THEN Append(InsertSorted(SubSeq(sorted, 1, Len(sorted) - 1), x), sorted[Len(sorted)])
    ELSE Append(sorted, x)

RECURSIVE SortByRanking(_)
SortByRanking(directories) ==
    IF directories = <<>> THEN <<>>
    ELSE InsertSorted(SortByRanking(SubSeq(directories, 1, Len(directories) - 1)),
                      directories[Len(directories)])

\* The candidate list process_zoxide_output stores for this output, and
\* whether naming a candidate panics instead.
ProcessedDirectories(output) ==
    With(generate_smart_session_names(ParseLines(Lines(output))), LAMBDA named :
        [panic |-> \E i \in 1..Len(named) : named[i].session_name = Panic,
         directories |-> SortByRanking(named)])

(***************************************************************************)
(* Sessions and the reconciled list (state.rs, manager.rs)                 *)
(***************************************************************************)

\* Seq(i): sessions[i].name
SessionNames(sessions) == {sessions[i].name : i \in 1..Len(sessions)}
ResurrectableNames(resurrectable) == {resurrectable[i].name : i \in 1..Len(resurrectable)}

U32MaxDigits == <<"4", "2", "9", "4", "9", "6", "7", "2", "9", "5">>

RECURSIVE StripLeadingZeros(_)
StripLeadingZeros(ds) ==
    IF ds # <<>> /\ ds[1] = "0" THEN StripLeadingZeros(Tail(ds)) ELSE ds

\* a <= b for two digit strings of the same length
RECURSIVE DigitsLeq(_, _)
DigitsLeq(a, b) ==
    IF a = <<>> THEN TRUE
    ELSE IF DigitVal(a[1]) < DigitVal(b[1]) THEN TRUE
    ELSE IF DigitVal(a[1]) > DigitVal(b[1]) THEN FALSE
    ELSE DigitsLeq(Tail(a), Tail(b))

\* str::parse::<u32>().is_ok(): an optional '+', then at least one digit,
\* the value no larger than u32::MAX.
ParseU32IsOk(s) ==
    With(IF s # <<>> /\ s[1] = "+" THEN Tail(s) ELSE s, LAMBDA digits :
        /\ digits # <<>>
        /\ AllDigits(digits)
        /\ With(StripLeadingZeros(digits), LAMBDA significant :
               \/ Len(significant) < Len(U32MaxDigits)
               \/ /\ Len(significant) = Len(U32MaxDigits)
                  /\ DigitsLeq(significant, U32MaxDigits)))

IsIncrementedWithoutSeparator(session_name, base_name, separator) ==
    /\ BLen(session_name) > BLen(base_name)
    /\ StartsWith(session_name, base_name)
    /\ ParseU32IsOk(SubSeq(session_name, Len(base_name) + 1, Len(session_name)))

IsIncrementedWith(session_name, base_name, separator) ==
    IF BLen(session_name) <= BLen(base_name) \/ ~StartsWith(session_name, base_name)
    THEN FALSE
    ELSE With(SubSeq(session_name, Len(base_name) + 1, Len(session_name)),
              LAMBDA remainder :
                  IF ~StartsWith(remainder, separator) THEN FALSE
                  ELSE With(SubSeq(remainder, Len(separator) + 1, Len(remainder)),
                            LAMBDA number_part :
                                ParseU32IsOk(number_part) /\ number_part # <<>>))

is_incremented_session(session_name, base_name) ==
    IsIncrementedWith(session_name, base_name, config.session_separator)

\* The condition of state.rs:158-159 and 177-178
MatchesDirectory(name, zoxide_dir) ==
    \/ name = zoxide_dir.session_name
    \/ is_incremented_session(name, zoxide_dir.session_name)

LastMatch(name, directories) ==
    With({j \in 1..Len(directories) : MatchesDirectory(name, directories[j])}, LAMBDA S :
        IF S = {} THEN 0 ELSE CHOOSE k \in S : \A m \in S : m <= k)

\* The first candidate, in list order, that the name matches (0: none)
FirstMatch(name, directories) ==
    MinOr({j \in 1..Len(directories) : MatchesDirectory(name, directories[j])}, 0)

\* state.rs:154-169
RECURSIVE ExistingSessionItems(_, _)
ExistingSessionItems(sessions, directories) ==
    IF sessions = <<>> THEN <<>>
    ELSE With(FirstMatch(Head(sessions).name, directories), LAMBDA j :
             IF j = 0 THEN <<>>
             ELSE <<[kind |-> "ExistingSession", name |-> Head(sessions).name,
                     directory |-> directories[j].directory,
                     is_current |-> Head(sessions).is_current_session]>>)
         \o ExistingSessionItems(Tail(sessions), directories)

\* state.rs:172-188
RECURSIVE ResurrectableSessionItems(_, _)
ResurrectableSessionItems(resurrectable, directories) ==
    IF resurrectable = <<>> THEN <<>>
    ELSE (IF FirstMatch(Head(resurrectable).name, directories) = 0 THEN <<>>
          ELSE <<[kind |-> "ResurrectableSession", name |-> Head(resurrectable).name,
                  duration |-> Head(resurrectable).duration]>>)
         \o ResurrectableSessionItems(Tail(resurrectable), directories)

DirectoryItemsWithoutSession(directories) ==
    SelectSeq([i \in 1..Len(directories) |->
                  [kind |-> "Directory", path |-> directories[i].directory,
                   session_name |-> directories[i].session_name]],
              LAMBDA item : item.session_name \notin SessionNames(session_manager.sessions))

\* state.rs:191-196
DirectoryItems(directories) ==
    [i \in 1..Len(directories) |->
        [kind |-> "Directory", path |-> directories[i].directory,
         session_name |-> directories[i].session_name]]

CombinedItemsWithResurrectable(sm, directories, show_resurrectable) ==
    ExistingSessionItems(sm.sessions, directories)
    \o ResurrectableSessionItems(sm.resurrectable_sessions, directories)
    \o DirectoryItems(directories)

CombinedItemsOf(sm, directories, show_resurrectable) ==
    ExistingSessionItems(sm.sessions, directories)
    \o (IF show_resurrectable
        THEN ResurrectableSessionItems(sm.resurrectable_sessions, directories)
        ELSE <<>>)
    \o DirectoryItems(directories)

combined_items ==
    CombinedItemsOf(session_manager, zoxide_directories, config.show_resurrectable_sessions)

MaxCounter == 1000

FirstFreeCounterFromOne(live, base_name, separator) ==
    MinOr({counter \in 1..MaxCounter :
              (base_name \o separator \o ToDecimal(counter)) \notin live}, 0)

\* manager.rs:99-106: the first counter in 2..=MaxCounter whose candidate is
\* no live session's name (0: every one is taken)
FirstFreeCounter(live, base_name, separator) ==
    MinOr({counter \in 2..MaxCounter :
              (base_name \o separator \o ToDecimal(counter)) \notin live}, 0)

\* token: the first 8 characters of the fresh UUID
GenerateIncrementedName(sm, base_name, separator, token) ==
    IF /\ base_name \notin SessionNames(sm.sessions)
       /\ base_name \notin ResurrectableNames(sm.resurrectable_sessions)
    THEN base_name
    ELSE With(FirstFreeCounter(SessionNames(sm.sessions), base_name, separator),
              LAMBDA counter :
                  IF counter # 0 THEN base_name \o separator \o ToDecimal(counter)
                  ELSE base_name \o separator \o token)

generate_incremented_name(base_name, separator, token) ==
    GenerateIncrementedName(session_manager, base_name, separator, token)

(***************************************************************************)
(* The search engine (search.rs)                                           *)
(***************************************************************************)

\* One unit of humantime::format_duration: nothing for 0, "<n><singular>"
\* for 1 and "<n><plural>" otherwise.
DurationItem(n, singular, plural) ==
    IF n = 0 THEN <<>>
    ELSE <<ToDecimal(n) \o (IF n = 1 THEN singular ELSE plural)>>

\* humantime::format_duration of a whole number of seconds
FormatDuration(secs) ==
    IF secs = 0 THEN <<"0", "s">>
    ELSE Join(DurationItem(secs \div 31557600,
                           <<"y", "e", "a", "r">>, <<"y", "e", "a", "r", "s">>)
              \o DurationItem((secs % 31557600) \div 2630016,
                              <<"m", "o", "n", "t", "h">>, <<"m", "o", "n", "t", "h", "s">>)
              \o DurationItem(((secs % 31557600) % 2630016) \div 86400,
                              <<"d", "a", "y">>, <<"d", "a", "y", "s">>)
              \o DurationItem((((secs % 31557600) % 2630016) % 86400) \div 3600,
                              <<"h">>, <<"h">>)
              \o DurationItem(((((secs % 31557600) % 2630016) % 86400) % 3600) \div 60,
                              <<"m">>, <<"m">>)
              \o DurationItem((((secs % 31557600) % 2630016) % 86400) % 60,
                              <<"s">>, <<"s">>),
              <<" ">>)

get_display_text_for_search(item) ==
    IF item.kind = "ExistingSession"
    THEN (IF item.is_current THEN <<"●", " ">> ELSE <<"○", " ">>)
         \o item.name \o <<" ", "(">> \o item.directory \o <<")">>
    ELSE IF item.kind = "ResurrectableSession"
    THEN <<"↺", " ">> \o item.name
         \o <<" ", "(", "c", "r", "e", "a", "t", "e", "d", " ">>
         \o FormatDuration(item.duration) \o <<" ", "a", "g", "o", ")">>
    ELSE item.path

UpperCase == <<"A", "B", "C", "D", "E", "F", "G", "H", "I", "J", "K", "L", "M",
               "N", "O", "P", "Q", "R", "S", "T", "U", "V", "W", "X", "Y", "Z">>
LowerCase == <<"a", "b", "c", "d", "e", "f", "g", "h", "i", "j", "k", "l", "m",
               "n", "o", "p", "q", "r", "s", "t", "u", "v", "w", "x", "y", "z">>

\* char::to_ascii_lowercase()
ToAsciiLower(c) ==
    IF \E i \in 1..26 : UpperCase[i] = c
    THEN LowerCase[CHOOSE i \in 1..26 : UpperCase[i] = c]
    ELSE c

\* SkimMatcherV2::default() matches in smart case: case-sensitively when the
\* pattern holds an upper-case character, ignoring ASCII case otherwise.
IsCaseSensitive(pattern) ==
    \E i \in 1..Len(pattern) : \E j \in 1..26 : UpperCase[j] = pattern[i]

CharEqual(a, b, case_sensitive) ==
    IF case_sensitive THEN a = b ELSE ToAsciiLower(a) = ToAsciiLower(b)

\* The positions of the leftmost match of pattern in choice from position
\* from on; <<0>> when the pattern is no ordered subsequence of the choice.
RECURSIVE LeftmostMatch(_, _, _, _)
LeftmostMatch(choice, pattern, from, case_sensitive) ==
    IF pattern = <<>> THEN <<>>
    ELSE With(MinOr({i \in from..Len(choice) :
                        CharEqual(choice[i], pattern[1], case_sensitive)}, 0),
              LAMBDA i :
                  IF i = 0 THEN <<0>>
                  ELSE With(LeftmostMatch(choice, Tail(pattern), i + 1, case_sensitive),
                            LAMBDA rest : IF rest = <<0>> THEN <<0>> ELSE <<i>> \o rest))

\* A score in the manner of the skim algorithm: a fixed amount for every
\* matched character, a bonus for every pair of adjacent matches, a penalty
\* for the distance of the first match from the start.
MatchScore(positions) ==
    16 * Len(positions)
    + 8 * Cardinality({i \in 1..(Len(positions) - 1) : positions[i + 1] = positions[i] + 1})
    - (positions[1] - 1)

FuzzyIndicesRespectingCase(choice, pattern) ==
    IF pattern = <<>> THEN Some([score |-> 0, indices |-> <<>>])
    ELSE With(LeftmostMatch(choice, pattern, 1, TRUE), LAMBDA positions :
             IF positions = <<0>> THEN None
             ELSE Some([score |-> MatchScore(positions),
                        indices |-> [i \in 1..Len(positions) |-> positions[i] - 1]]))

\* SkimMatcherV2::fuzzy_indices(choice, pattern): Some([score, indices]) when
\* the pattern matches, None otherwise.
fuzzy_indices(choice, pattern) ==
    IF pattern = <<>> THEN Some([score |-> 0, indices |-> <<>>])
    ELSE With(LeftmostMatch(choice, pattern, 1, IsCaseSensitive(pattern)),
              LAMBDA positions :
                  IF positions = <<0>> THEN None
                  ELSE Some([score |-> MatchScore(positions),
                             indices |-> [i \in 1..Len(positions) |-> positions[i] - 1]]))

\* search.rs:133-147
RECURSIVE Matches(_, _)
Matches(items, term) ==
    IF items = <<>> THEN <<>>
    ELSE With(fuzzy_indices(get_display_text_for_search(Head(items)), term),
              LAMBDA m :
                  IF IsSome(m)
                  THEN <<[item |-> Head(items), score |-> Unwrap(m).score,
                          indices |-> Unwrap(m).indices]>>
                  ELSE <<>>)
         \o Matches(Tail(items), term)

IsSessionLike(item) == item.kind \in {"ExistingSession", "ResurrectableSession"}

ScoreBefore(a, b) == b.score < a.score

\* search.rs:150-158: the comparison yields Less (a sorts before b)
ResultBefore(a, b) ==
    \/ IsSessionLike(a.item) /\ ~IsSessionLike(b.item)
    \/ /\ IsSessionLike(a.item) = IsSessionLike(b.item)
       /\ b.score < a.score

RECURSIVE InsertResult(_, _)
InsertResult(sorted, x) ==
    IF sorted = <<>> THEN <<x>>
    ELSE IF ResultBefore(x, sorted[Len(sorted)])
    THEN Append(InsertResult(SubSeq(sorted, 1, Len(sorted) - 1), x), sorted[Len(sorted)])
    ELSE Append(sorted, x)

\* slice::sort_by (stable) with the comparison of search.rs:150-158
RECURSIVE SortResults(_)
SortResults(matches) ==
    IF matches = <<>> THEN <<>>
    ELSE InsertResult(SortResults(SubSeq(matches, 1, Len(matches) - 1)),
                      matches[Len(matches)])

RepairToFirst(selected, n_results) == IF n_results = 0 THEN None ELSE Some(0)

\* search.rs:163-176
RepairSelection(selected, n_results) ==
    IF n_results = 0 THEN None
    ELSE IF IsSome(selected) /\ Unwrap(selected) >= n_results THEN Some(n_results - 1)
    ELSE IF selected = None THEN Some(0)
    ELSE selected

PerformSearchKeepingSelection(se, items) ==
    [se EXCEPT !.results = SortResults(Matches(items, se.search_term))]

perform_search(se, items) ==
    With(SortResults(Matches(items, se.search_term)), LAMBDA results :
        [se EXCEPT !.results = results,
                   !.selected_index = RepairSelection(se.selected_index, Len(results))])

update_search(se, term, items) ==
    With([se EXCEPT !.search_term = term, !.is_searching = (term # <<>>)], LAMBDA s1 :
        IF s1.is_searching THEN perform_search(s1, items)
        ELSE [s1 EXCEPT !.results = <<>>, !.selected_index = None])

add_char(se, c, items) ==
    update_search(se, Append(se.search_term, c), items)

\* String::pop() removes the last character, if any
backspace(se, items) ==
    update_search(se, SubSeq(se.search_term, 1, Len(se.search_term) - 1), items)

ClearTermOnly(se) == [se EXCEPT !.search_term = <<>>, !.is_searching = FALSE]

clear(se) ==
    [se EXCEPT !.search_term = <<>>, !.results = <<>>,
               !.selected_index = None, !.is_searching = FALSE]

\* usize::saturating_sub(1)
SatDec(n) == IF n > 0 THEN n - 1 ELSE 0

SearchMoveUp(se) ==
    IF IsSome(se.selected_index)
    THEN [se EXCEPT !.selected_index =
            IF Unwrap(se.selected_index) = 0 THEN Some(SatDec(Len(se.results)))
            ELSE Some(SatDec(Unwrap(se.selected_index)))]
    ELSE IF se.results # <<>>
    THEN [se EXCEPT !.selected_index = Some(SatDec(Len(se.results)))]
    ELSE se

SearchMoveDown(se) ==
    IF IsSome(se.selected_index)
    THEN [se EXCEPT !.selected_index =
            IF Unwrap(se.selected_index) = SatDec(Len(se.results)) THEN Some(0)
            ELSE Some(Unwrap(se.selected_index) + 1)]
    ELSE IF se.results # <<>>
    THEN [se EXCEPT !.selected_index = Some(0)]
    ELSE se

\* SearchEngine::selected_item
SearchSelectedItem(se) ==
    IF IsSome(se.selected_index) /\ Unwrap(se.selected_index) < Len(se.results)
    THEN Some(se.results[Unwrap(se.selected_index) + 1].item)
    ELSE None

(***************************************************************************)
(* The plugin state and its handlers (state.rs, main.rs).  A handler is a  *)
(* function from the state before the event to the state after it.         *)
(***************************************************************************)

Cur ==
    [config |-> config, session_manager |-> session_manager,
     zoxide_directories |-> zoxide_directories, search_engine |-> search_engine,
     new_session_info |-> new_session_info, active_screen |-> active_screen,
     error |-> error, current_session_name |-> current_session_name,
     request_ids |-> request_ids, selected_index |-> selected_index,
     host_calls |-> host_calls, panicked |-> panicked]

Becomes(n) ==
    /\ config' = n.config
    /\ session_manager' = n.session_manager
    /\ zoxide_directories' = n.zoxide_directories
    /\ search_engine' = n.search_engine
    /\ new_session_info' = n.new_session_info
    /\ active_screen' = n.active_screen
    /\ error' = n.error
    /\ current_session_name' = n.current_session_name
    /\ request_ids' = n.request_ids
    /\ selected_index' = n.selected_index
    /\ host_calls' = n.host_calls
    /\ panicked' = n.panicked

\* PluginState::default() with the configuration that load() installs
DefaultState(configuration) ==
    [config |-> from_zellij_config(configuration),
     session_manager |-> [sessions |-> <<>>, pending_deletion |-> None,
                          resurrectable_sessions |-> <<>>],
     zoxide_directories |-> <<>>,
     search_engine |-> [search_term |-> <<>>, results |-> <<>>,
                        selected_index |-> None, is_searching |-> FALSE],
     new_session_info |-> [name |-> <<>>, new_session_folder |-> None,
                           entering_layout_search_term |-> FALSE,
                           layout_list |-> <<>>],
     active_screen |-> "Main",
     error |-> None,
     current_session_name |-> None,
     request_ids |-> <<>>,
     selected_index |-> None,
     host_calls |-> <<>>,
     panicked |-> FALSE]

HostCall(st, c) == [st EXCEPT !.host_calls = Append(@, c)]

hide_self(st) == HostCall(st, [op |-> "hide_self"])

set_error(st, message) == [st EXCEPT !.error = Some(message)]

fetch_zoxide_directories(st) ==
    HostCall(st, [op |-> "run_command", context |-> "zoxide_query"])

CombinedItemsIn(st) ==
    CombinedItemsOf(st.session_manager, st.zoxide_directories,
                    st.config.show_resurrectable_sessions)

KeepSearchResults(st) == st

update_search_if_needed(st) ==
    IF st.search_engine.is_searching
    THEN [st EXCEPT !.search_engine =
            update_search(st.search_engine, st.search_engine.search_term,
                          CombinedItemsIn(st))]
    ELSE st

\* sessions.iter().find(|s| s.is_current_session): its index (0: none)
CurrentSession(sessions) ==
    MinOr({i \in 1..Len(sessions) : sessions[i].is_current_session}, 0)

update_sessions(st, sessions) ==
    With(CurrentSession(sessions), LAMBDA current :
        update_search_if_needed(
            [(IF current = 0 THEN st
              ELSE [st EXCEPT !.current_session_name = Some(sessions[current].name),
                              !.new_session_info.layout_list =
                                    sessions[current].available_layouts])
             EXCEPT !.session_manager.sessions = sessions]))

update_resurrectable_sessions(st, resurrectable_sessions) ==
    update_search_if_needed(
        [st EXCEPT !.session_manager.resurrectable_sessions = resurrectable_sessions])

update_zoxide_directories(st, directories) ==
    update_search_if_needed([st EXCEPT !.zoxide_directories = directories])

process_zoxide_output(st, output) ==
    With(ProcessedDirectories(output), LAMBDA processed :
        IF processed.panic THEN [st EXCEPT !.panicked = TRUE]
        ELSE update_zoxide_directories(st, processed.directories))

display_items(st) ==
    IF st.search_engine.is_searching
    THEN [i \in 1..Len(st.search_engine.results) |-> st.search_engine.results[i].item]
    ELSE CombinedItemsIn(st)

\* PluginState::selected_index()
ReportedSelectedIndex(st) ==
    IF st.search_engine.is_searching THEN st.search_engine.selected_index
    ELSE st.selected_index

selected_item(st) ==
    IF st.search_engine.is_searching THEN SearchSelectedItem(st.search_engine)
    ELSE With(display_items(st), LAMBDA items :
             IF IsSome(st.selected_index) /\ Unwrap(st.selected_index) < Len(items)
             THEN Some(items[Unwrap(st.selected_index) + 1])
             ELSE None)

move_selection_up(st) ==
    IF st.search_engine.is_searching
    THEN [st EXCEPT !.search_engine = SearchMoveUp(st.search_engine)]
    ELSE With(Len(display_items(st)), LAMBDA items_len :
             IF items_len = 0 THEN st
             ELSE IF IsSome(st.selected_index)
             THEN [st EXCEPT !.selected_index =
                     IF Unwrap(st.selected_index) = 0 THEN Some(SatDec(items_len))
                     ELSE Some(SatDec(Unwrap(st.selected_index)))]
             ELSE [st EXCEPT !.selected_index = Some(SatDec(items_len))])

MoveDownWithoutWrap(st) ==
    IF st.search_engine.is_searching
    THEN [st EXCEPT !.search_engine = SearchMoveDown(st.search_engine)]
    ELSE IF Len(display_items(st)) = 0 THEN st
    ELSE IF st.selected_index = None THEN [st EXCEPT !.selected_index = Some(0)]
    ELSE [st EXCEPT !.selected_index =
            Some(Min(Unwrap(st.selected_index) + 1, Len(display_items(st)) - 1))]

move_selection_down(st) ==
    IF st.search_engine.is_searching
    THEN [st EXCEPT !.search_engine = SearchMoveDown(st.search_engine)]
    ELSE With(Len(display_items(st)), LAMBDA items_len :
             IF items_len = 0 THEN st
             ELSE IF IsSome(st.selected_index)
             THEN [st EXCEPT !.selected_index =
                     IF Unwrap(st.selected_index) = SatDec(items_len) THEN Some(0)
                     ELSE Some(Unwrap(st.selected_index) + 1)]
             ELSE [st EXCEPT !.selected_index = Some(0)])

\* SessionManager::execute_action
execute_action(st, action) ==
    IF action.kind = "Switch"
    THEN HostCall(st, [op |-> "switch_session", name |-> action.name])
    ELSE IF action.name \in ResurrectableNames(st.session_manager.resurrectable_sessions)
    THEN HostCall(st, [op |-> "delete_dead_session", name |-> action.name])
    ELSE HostCall(st, [op |-> "kill_sessions", name |-> action.name])

\* state.rs:447-473: the match on the selected item
SelectItemOpeningForm(st, item, rand) ==
    IF IsSessionLike(item)
    THEN [hide_self(execute_action(st, [kind |-> "Switch", name |-> item.name]))
            EXCEPT !.active_screen = "NewSession"]
    ELSE [st EXCEPT !.new_session_info.name =
                        GenerateIncrementedName(st.session_manager, item.session_name,
                                                st.config.session_separator, rand.token),
                    !.new_session_info.new_session_folder = Some(item.path),
                    !.new_session_info.entering_layout_search_term = TRUE,
                    !.active_screen = "NewSession"]

SelectItem(st, item, rand) ==
    IF IsSessionLike(item)
    THEN hide_self(execute_action(st, [kind |-> "Switch", name |-> item.name]))
    ELSE [st EXCEPT !.new_session_info.name =
                        GenerateIncrementedName(st.session_manager, item.session_name,
                                                st.config.session_separator, rand.token),
                    !.new_session_info.new_session_folder = Some(item.path),
                    !.new_session_info.entering_layout_search_term = TRUE,
                    !.active_screen = "NewSession"]

handle_item_selection(st, rand) ==
    With(selected_item(st), LAMBDA selected :
        IF selected = None THEN st ELSE SelectItem(st, Unwrap(selected), rand))

handle_delete_key(st) ==
    With(selected_item(st), LAMBDA selected :
        IF IsSome(selected) /\ IsSessionLike(Unwrap(selected))
        THEN [st EXCEPT !.session_manager.pending_deletion = Some(Unwrap(selected).name)]
        ELSE st)

\* state.rs:598-634: the session is created with the configured default
\* layout when the current session offers it, without a layout otherwise.
CreateSession(st, session_name, session_folder) ==
    With(st.session_manager.sessions, LAMBDA sessions :
    With(CurrentSession(sessions), LAMBDA current :
        hide_self(
            IF IsSome(st.config.default_layout) /\ current # 0
               /\ \E l \in 1..Len(sessions[current].available_layouts) :
                     sessions[current].available_layouts[l]
                        = Unwrap(st.config.default_layout)
            THEN HostCall(st, [op |-> "switch_session_with_layout",
                               name |-> Some(session_name),
                               layout |-> Unwrap(st.config.default_layout),
                               cwd |-> session_folder])
            ELSE HostCall(st, [op |-> "switch_session_with_cwd",
                               name |-> Some(session_name),
                               cwd |-> session_folder]))))

MaxNameBytes == 108

\* state.rs:569-634: the quick creation of a session for a directory
QuickCreate(st, session_name, path) ==
    IF BLen(session_name) >= MaxNameBytes
    THEN set_error(st, "Session name must be shorter than 108 bytes")
    ELSE IF Contains(session_name, "/")
    THEN set_error(st, "Session name cannot contain '/'")
    ELSE IF Some(session_name) = st.current_session_name
    THEN set_error(st, "Cannot create session with same name as current session")
    ELSE CreateSession(st, session_name, Some(path))

\* state.rs:552-568: the match on the selected item
QuickSelectItem(st, item, rand) ==
    IF IsSessionLike(item)
    THEN hide_self(HostCall(st, [op |-> "switch_session_with_cwd",
                                 name |-> Some(item.name), cwd |-> None]))
    ELSE QuickCreate(st,
                     GenerateIncrementedName(st.session_manager, item.session_name,
                                             st.config.session_separator, rand.token),
                     item.path)

handle_quick_session_creation(st, rand) ==
    With(selected_item(st), LAMBDA selected :
        IF selected = None THEN set_error(st, "Please select a directory")
        ELSE QuickSelectItem(st, Unwrap(selected), rand))

(***************************************************************************)
(* Keys.  A key is [bare_key, modifiers]: bare_key is <<"Up">>, <<"Down">>,*)
(* <<"Enter">>, <<"Delete">>, <<"Backspace">>, <<"Esc">>, <<"Tab">> or      *)
(* <<"Char", c>>; modifiers is a set of modifier names.                     *)
(***************************************************************************)

KeyOf(bare_key, modifiers) == [bare_key |-> bare_key, modifiers |-> modifiers]
has_no_modifiers(key) == key.modifiers = {}
has_modifiers(key, modifiers) == modifiers \subseteq key.modifiers
IsChar(key) == key.bare_key[1] = "Char"
IsCharOf(key, c) == key.bare_key = <<"Char", c>>

\* NewSessionInfo::handle_key: Esc leaves the layout search for the name
\* entry, or clears the name; Backspace and characters edit the name while
\* it is being entered.
NewSessionInfoHandleKey(nsi, key) ==
    IF key.bare_key = <<"Esc">> /\ has_no_modifiers(key)
    THEN IF nsi.entering_layout_search_term
         THEN [nsi EXCEPT !.entering_layout_search_term = FALSE]
         ELSE [nsi EXCEPT !.name = <<>>]
    ELSE IF key.bare_key = <<"Backspace">> /\ has_no_modifiers(key)
            /\ ~nsi.entering_layout_search_term /\ nsi.name # <<>>
    THEN [nsi EXCEPT !.name = SubSeq(nsi.name, 1, Len(nsi.name) - 1)]
    ELSE IF IsChar(key) /\ has_no_modifiers(key) /\ ~nsi.entering_layout_search_term
    THEN [nsi EXCEPT !.name = Append(nsi.name, key.bare_key[2])]
    ELSE nsi

\* NewSessionInfo::handle_quick_session_creation
NewSessionInfoQuickCreation(st) ==
    With(IF st.new_session_info.name = <<>> THEN None ELSE Some(st.new_session_info.name),
         LAMBDA name :
             hide_self(
                 [(IF name # st.current_session_name
                   THEN HostCall(st, [op |-> "switch_session_with_cwd", name |-> name,
                                      cwd |-> st.new_session_info.new_session_folder])
                   ELSE st)
                  EXCEPT !.new_session_info.name = <<>>,
                         !.new_session_info.entering_layout_search_term = FALSE]))

\* NewSessionInfo::handle_selection: Enter on the name entry advances to the
\* layout selection; Enter on the layout selection creates the session
\* (unless it is the current one) and resets the entry.
NewSessionInfoHandleSelection(st) ==
    IF ~st.new_session_info.entering_layout_search_term
    THEN [st EXCEPT !.new_session_info.entering_layout_search_term = TRUE]
    ELSE NewSessionInfoQuickCreation(st)

launch_filepicker(st, rand) ==
    HostCall([st EXCEPT !.request_ids = Append(@, rand.request_id)],
             [op |-> "pipe_message_to_plugin", request_id |-> rand.request_id,
              caller_cwd |-> st.new_session_info.new_session_folder])

handle_main_screen_key(st, key, rand) ==
    IF key.bare_key = <<"Up">> /\ has_no_modifiers(key) THEN move_selection_up(st)
    ELSE IF key.bare_key = <<"Down">> /\ has_no_modifiers(key) THEN move_selection_down(st)
    ELSE IF key.bare_key = <<"Enter">> /\ has_no_modifiers(key)
    THEN handle_item_selection(st, rand)
    ELSE IF key.bare_key = <<"Enter">> /\ has_modifiers(key, {"Ctrl"})
    THEN handle_quick_session_creation(st, rand)
    ELSE IF key.bare_key = <<"Delete">> /\ has_no_modifiers(key) THEN handle_delete_key(st)
    ELSE IF IsChar(key) /\ has_no_modifiers(key) /\ key.bare_key[2] # "\n"
    THEN [st EXCEPT !.search_engine =
            add_char(st.search_engine, key.bare_key[2], CombinedItemsIn(st))]
    ELSE IF key.bare_key = <<"Backspace">> /\ has_no_modifiers(key)
    THEN [st EXCEPT !.search_engine = backspace(st.search_engine, CombinedItemsIn(st))]
    ELSE IF key.bare_key = <<"Esc">> /\ has_no_modifiers(key)
    THEN IF st.search_engine.is_searching
         THEN [st EXCEPT !.search_engine = clear(st.search_engine)]
         ELSE hide_self(st)
    ELSE IF IsCharOf(key, "c") /\ has_modifiers(key, {"Ctrl"}) THEN hide_self(st)
    ELSE IF IsCharOf(key, "r") /\ has_modifiers(key, {"Ctrl"})
    THEN fetch_zoxide_directories(st)
    ELSE st

handle_new_session_key(st, key, rand) ==
    IF key.bare_key = <<"Enter">> /\ has_no_modifiers(key)
    THEN [NewSessionInfoHandleSelection(st) EXCEPT !.active_screen = "Main"]
    ELSE IF key.bare_key = <<"Enter">> /\ has_modifiers(key, {"Ctrl"})
    THEN IF BLen(st.new_session_info.name) >= MaxNameBytes
         THEN set_error(st, "Session name must be shorter than 108 bytes")
         ELSE IF Contains(st.new_session_info.name, "/")
         THEN set_error(st, "Session name cannot contain '/'")
         ELSE [NewSessionInfoQuickCreation(st) EXCEPT !.active_screen = "Main"]
    ELSE IF key.bare_key = <<"Esc">> /\ has_no_modifiers(key)
    THEN IF ~st.new_session_info.entering_layout_search_term
            /\ st.new_session_info.name = <<>>
         THEN [st EXCEPT !.active_screen = "Main"]
         ELSE [st EXCEPT !.new_session_info = NewSessionInfoHandleKey(@, key)]
    ELSE IF IsCharOf(key, "f") /\ has_modifiers(key, {"Ctrl"})
    THEN launch_filepicker(st, rand)
    ELSE IF IsCharOf(key, "c") /\ has_modifiers(key, {"Ctrl"})
    THEN [st EXCEPT !.new_session_info.new_session_folder = None]
    ELSE [st EXCEPT !.new_session_info = NewSessionInfoHandleKey(@, key)]

ConfirmOnAnyKey(st, key) ==
    IF (key.bare_key = <<"Esc">> \/ IsCharOf(key, "n") \/ IsCharOf(key, "N"))
       /\ has_no_modifiers(key)
    THEN [st EXCEPT !.session_manager.pending_deletion = None]
    ELSE execute_action([st EXCEPT !.session_manager.pending_deletion = None],
                        [kind |-> "Kill",
                         name |-> Unwrap(st.session_manager.pending_deletion)])

handle_deletion_confirmation(st, key) ==
    IF (IsCharOf(key, "y") \/ IsCharOf(key, "Y")) /\ has_no_modifiers(key)
    THEN execute_action([st EXCEPT !.session_manager.pending_deletion = None],
                        [kind |-> "Kill",
                         name |-> Unwrap(st.session_manager.pending_deletion)])
    ELSE IF (IsCharOf(key, "n") \/ IsCharOf(key, "N") \/ key.bare_key = <<"Esc">>)
            /\ has_no_modifiers(key)
    THEN [st EXCEPT !.session_manager.pending_deletion = None]
    ELSE st

HandleKeyResettingSelection(st, key, rand) ==
    IF IsSome(st.error) THEN [st EXCEPT !.error = None]
    ELSE IF IsSome(st.session_manager.pending_deletion)
    THEN handle_deletion_confirmation(st, key)
    ELSE IF st.active_screen = "Main"
    THEN IF IsChar(key) /\ has_no_modifiers(key)
         THEN [handle_main_screen_key(st, key, rand) EXCEPT !.selected_index = None]
         ELSE handle_main_screen_key(st, key, rand)
    ELSE handle_new_session_key(st, key, rand)

HandleKeyAfterDismissal(st, key, rand) ==
    With([st EXCEPT !.error = None], LAMBDA cleared :
        IF IsSome(cleared.session_manager.pending_deletion)
        THEN handle_deletion_confirmation(cleared, key)
        ELSE IF cleared.active_screen = "Main"
        THEN handle_main_screen_key(cleared, key, rand)
        ELSE handle_new_session_key(cleared, key, rand))

handle_key(st, key, rand) ==
    IF IsSome(st.error) THEN [st EXCEPT !.error = None]
    ELSE IF IsSome(st.session_manager.pending_deletion)
    THEN handle_deletion_confirmation(st, key)
    ELSE IF st.active_screen = "Main" THEN handle_main_screen_key(st, key, rand)
    ELSE handle_new_session_key(st, key, rand)


(***************************************************************************)
(* ZellijPlugin::pipe (main.rs:93-139): the result of the file picker.     *)
(* A request id is the text of a Uuid; a path is a string.  The paths      *)
(* handled here hold no "." or ".." segment.                               *)
(***************************************************************************)

\* str::trim_end_matches('/') of a path that keeps a lone root
TrimSeparators(p) ==
    IF \A i \in 1..Len(p) : p[i] = "/"
    THEN (IF p = <<>> THEN <<>> ELSE <<"/">>)
    ELSE TrimEndSlashes(p)

\* Path::parent: the path without its last component; None for the root and
\* for the empty path
PathParent(p) ==
    With(TrimSeparators(p), LAMBDA t :
        IF t = <<>> \/ t = <<"/">> THEN None
        ELSE With(MinOr({Len(t) - i : i \in {j \in 1..Len(t) : t[j] = "/"}}, Len(t)),
                  LAMBDA back : Some(TrimSeparators(SubSeq(t, 1, Len(t) - back)))))

\* Path::extension().is_some(): the file name holds a '.' after its first
\* character
HasExtension(p) ==
    With(FileName(p), LAMBDA name : \E i \in 2..Len(name) : name[i] = ".")

\* main.rs:104-128; kind is what the file system holds at the selected path:
\* "file", "directory" or "missing"
SessionFolder(selected_path, kind) ==
    IF (kind = "file") \/ (kind = "missing" /\ HasExtension(selected_path))
    THEN With(PathParent(selected_path), LAMBDA parent :
            IF IsSome(parent) THEN Unwrap(parent) ELSE selected_path)
    ELSE selected_path

is_valid_request_id(st, request_id) ==
    \E i \in 1..Len(st.request_ids) : st.request_ids[i] = request_id

remove_request_id(st, request_id) ==
    [st EXCEPT !.request_ids = SelectSeq(@, LAMBDA id : id # request_id)]

PipeMessage(name, payload, request_id) ==
    [name |-> name, payload |-> payload, request_id |-> request_id]

PipeKeepingRequestId(st, pipe_message, kind) ==
    IF pipe_message.name # "filepicker_result" THEN st
    ELSE IF ~IsSome(pipe_message.payload) \/ ~IsSome(pipe_message.request_id) THEN st
    ELSE IF ~is_valid_request_id(st, Unwrap(pipe_message.request_id)) THEN st
    ELSE [st EXCEPT !.new_session_info.new_session_folder =
              Some(SessionFolder(Unwrap(pipe_message.payload), kind))]

pipe(st, pipe_message, kind) ==
    IF pipe_message.name # "filepicker_result" THEN st
    ELSE IF ~IsSome(pipe_message.payload) \/ ~IsSome(pipe_message.request_id) THEN st
    ELSE IF ~is_valid_request_id(st, Unwrap(pipe_message.request_id)) THEN st
    ELSE [remove_request_id(st, Unwrap(pipe_message.request_id))
            EXCEPT !.new_session_info.new_session_folder =
              Some(SessionFolder(Unwrap(pipe_message.payload), kind))]

(***************************************************************************)
(* The events of ZellijPlugin::update (main.rs:39-91).  host_calls holds   *)
(* the calls of the last event.                                            *)
(***************************************************************************)

Start == [Cur EXCEPT !.host_calls = <<>>]

KeyEvent(key, rand) ==
    /\ ~panicked
    /\ Becomes(handle_key(Start, key, rand))

SessionUpdate(session_infos, resurrectable_session_infos) ==
    /\ ~panicked
    /\ Becomes(update_resurrectable_sessions(update_sessions(Start, session_infos),
                                             resurrectable_session_infos))

\* has_zoxide_query: the context holds the key "zoxide_query"; stderr: the text
\* String::from_utf8_lossy gives for the bytes of the error output
RunCommandResultIgnoringExitCode(exit_code, stdout, stderr, has_zoxide_query) ==
    /\ ~panicked
    /\ Becomes(IF ~has_zoxide_query THEN Start
               ELSE IF exit_code = Some(0) THEN process_zoxide_output(Start, stdout)
               ELSE set_error(process_zoxide_output(Start, stdout),
                              "Failed to run zoxide (is it installed?): " \o stderr))

RunCommandResult(exit_code, stdout, stderr, has_zoxide_query) ==
    /\ ~panicked
    /\ Becomes(IF ~has_zoxide_query THEN Start
               ELSE IF exit_code = Some(0) THEN process_zoxide_output(Start, stdout)
               ELSE set_error(Start, "Failed to run zoxide (is it installed?): " \o stderr))

PermissionRequestResult(granted) ==
    /\ ~panicked
    /\ Becomes(IF granted THEN fetch_zoxide_directories(Start)
               ELSE set_error(Start,
                      "RunCommands permission denied - cannot fetch zoxide directories"))

\* ZellijPlugin::pipe
Pipe(pipe_message, kind) ==
    /\ ~panicked
    /\ Becomes(pipe(Start, pipe_message, kind))

(***************************************************************************)
(* Specifications                                                          *)
(***************************************************************************)

InitialState(st) ==
    /\ config = st.config
    /\ session_manager = st.session_manager
    /\ zoxide_directories = st.zoxide_directories
    /\ search_engine = st.search_engine
    /\ new_session_info = st.new_session_info
    /\ active_screen = st.active_screen
    /\ error = st.error
    /\ current_session_name = st.current_session_name
    /\ request_ids = st.request_ids
    /\ selected_index = st.selected_index
    /\ host_calls = st.host_calls
    /\ panicked = st.panicked

Session(name, is_current) ==
    [name |-> name, is_current_session |-> is_current, available_layouts |-> <<>>]

Resurrectable(name, secs) == [name |-> name, duration |-> secs]

Repeat(c, n) == [i \in 1..n |-> c]

\* All sequences of at most n pairwise different elements of S
DistinctSeqs(S, n) ==
    {q \in UNION {[1..k -> S] : k \in 0..n} :
        \A i, j \in 1..Len(q) : i # j => q[i] # q[j]}

\* The text of an output whose lines are the given ones
RECURSIVE JoinLines(_)
JoinLines(lines) ==
    IF lines = <<>> THEN <<>> ELSE Head(lines) \o <<"\n">> \o JoinLines(Tail(lines))

(***************************************************************************)
(* SpecNaming: one ranking refresh, under each configuration, on each      *)
(* output made of at most MaxLines lines of NamingLines.                   *)
(***************************************************************************)

MaxLines == 3

LongSegment == Repeat("x", 30)

NamingLines ==
    { <<"1", "0", " ", "/", "w", "/", "a", "p", "i">>,
      <<"5", " ", "/", "p", "/", "a", "p", "i">>,
      <<"8", " ", "/", "c", "/", "p", "r", "j">>,
      <<"5", ".", "5", " ", "/", "c", "/", "p", "r", "j", "/", "f", "e">>,
      <<"3", " ", "/", "w", "o", "r", "k", "/">> \o LongSegment,
      <<"2", " ", "/", "w", "o", "r", "x", "/">> \o LongSegment,
      <<"5", " ", "/", "z", "/", "w", ".", "a", "p", "i">>,
      <<"6", " ", "/", "p", "/", "w", "/", "a", "p", "i">>,
      <<"1", " ", "/">> }

NamingOutputs == {JoinLines(q) : q \in DistinctSeqs(NamingLines, MaxLines)}

NamingConfigurations ==
    { <<>>,
      "base_paths" :> <<"/", "w", "|", " ", "/", "p", "/", " ", "|">>,
      "session_separator" :> <<"/">>,
      ("session_separator" :> <<"-">>) @@ ("base_paths" :> <<"/", "c">>) }

NamingInit ==
    \E configuration \in NamingConfigurations, output \in NamingOutputs :
        /\ InitialState(DefaultState(configuration))
        /\ call = [op |-> "RunCommandResult", stdout |-> output, done |-> FALSE]

NamingRefresh ==
    /\ call.op = "RunCommandResult"
    /\ ~call.done
    /\ RunCommandResult(Some(0), call.stdout, "", TRUE)
    /\ call' = [call EXCEPT !.done = TRUE]

NamingNext == NamingRefresh

SpecNaming == NamingInit /\ [][NamingNext]_vars

\* The refresh has run and has assigned the session names
NamesAssigned == call.op = "RunCommandResult" /\ call.done /\ ~panicked

PairwiseDistinctPaths ==
    \A i, j \in 1..Len(zoxide_directories) :
        i # j => zoxide_directories[i].directory # zoxide_directories[j].directory

\* C1: after generate_smart_session_names has run on candidates with
\* pairwise-distinct paths, two candidates that share a basename have
\* different session names, truncated or not.
C1_SameBasenameDistinctNames ==
    (NamesAssigned /\ PairwiseDistinctPaths) =>
        \A i, j \in 1..Len(zoxide_directories) :
            (/\ i # j
             /\ FileName(zoxide_directories[i].directory)
                  = FileName(zoxide_directories[j].directory))
            => zoxide_directories[i].session_name # zoxide_directories[j].session_name

\* C2: every session name the resolver assigns is at most 29 bytes long,
\* whichever branch produced it.
C2_NameAtMost29Bytes ==
    NamesAssigned =>
        \A i \in 1..Len(zoxide_directories) :
            BLen(zoxide_directories[i].session_name) <= 29

\* C3: no session name the resolver assigns contains '/', for every
\* candidate path and every configured separator.
C3_NameWithoutSlash ==
    NamesAssigned =>
        \A i \in 1..Len(zoxide_directories) :
            ~Contains(zoxide_directories[i].session_name, "/")


\* C15: after generate_smart_session_names has run on candidates with
\* pairwise-distinct paths, the session names are pairwise distinct across
\* the whole set, also between candidates of different basenames.
C15_AllNamesDistinct ==
    (NamesAssigned /\ PairwiseDistinctPaths) =>
        \A i, j \in 1..Len(zoxide_directories) :
            i # j => zoxide_directories[i].session_name # zoxide_directories[j].session_name


\* C16: the resolver is total and yields no empty name: the refresh ends
\* without a panic and every candidate, whatever its path, has a non-empty
\* session_name.
C16_NameNeverEmpty ==
    (call.op = "RunCommandResult" /\ call.done) =>
        /\ ~panicked
        /\ \A i \in 1..Len(zoxide_directories) :
              zoxide_directories[i].session_name # <<>>


\* The candidates that share the basename of candidate i
C17_Group(i) ==
    {j \in 1..Len(zoxide_directories) :
        FileName(zoxide_directories[j].directory) = FileName(zoxide_directories[i].directory)}

\* The components of a are a proper prefix of the components of b
C17_StrictPrefix(a, b) ==
    /\ Len(a) < Len(b)
    /\ \A k \in 1..Len(a) : a[k] = b[k]

\* The normalized path of candidate i is a strict component-wise descendant
\* of the normalized path of another candidate
C17_Nested(i) ==
    \E j \in 1..Len(zoxide_directories) :
        /\ j # i
        /\ C17_StrictPrefix(PathComponents(normalize_path(zoxide_directories[j].directory)),
                            PathComponents(normalize_path(zoxide_directories[i].directory)))

\* The last min(k, segment count) normalized segments of candidate i, joined
C17_Context(i, k) ==
    With(Segments(normalize_path(zoxide_directories[i].directory)), LAMBDA segments :
        Join(SubSeq(segments, Len(segments) - Min(k, Len(segments)) + 1, Len(segments)),
             config.session_separator))

\* C17: a candidate alone in its basename group is named by its basename
\* when it is not nested, and by its last min(3, segment count) normalized
\* segments joined by the separator when it is nested, unless that name is
\* longer than the length limit and is truncated.
C17_SingletonNames ==
    (NamesAssigned /\ PairwiseDistinctPaths) =>
        \A i \in 1..Len(zoxide_directories) :
            C17_Group(i) = {i} =>
                IF C17_Nested(i)
                THEN \/ zoxide_directories[i].session_name = C17_Context(i, 3)
                     \/ BLen(C17_Context(i, 3)) > max_length
                ELSE zoxide_directories[i].session_name
                       = FileName(zoxide_directories[i].directory)

\* C17 witness: /c/prj/fe, nested under /c/prj, is named c.prj.fe, and
\* /c/prj is named prj
C17_Witness ==
    /\ NamesAssigned
    /\ \E i, j \in 1..Len(zoxide_directories) :
          /\ zoxide_directories[i].directory = <<"/", "c", "/", "p", "r", "j", "/", "f", "e">>
          /\ zoxide_directories[i].session_name = <<"c", ".", "p", "r", "j", ".", "f", "e">>
          /\ zoxide_directories[j].directory = <<"/", "c", "/", "p", "r", "j">>
          /\ zoxide_directories[j].session_name = <<"p", "r", "j">>


C18_SegmentCount(i) == Len(Segments(normalize_path(zoxide_directories[i].directory)))

\* The name of candidate i at context length k differs from the name at
\* context length k of every other member of its group that has at least k
\* segments
C18_DiffersAt(i, k) ==
    \A j \in C17_Group(i) \ {i} :
        C18_SegmentCount(j) >= k => C17_Context(i, k) # C17_Context(j, k)

\* The smallest such k; beyond the longest member no member is left to
\* differ from
C18_Accepted(i) ==
    MinOr({k \in 1..(Len(zoxide_directories[i].directory) + 1) : C18_DiffersAt(i, k)}, 0)

\* C18: a candidate that is not nested and shares its basename with other
\* candidates is named by its last k normalized segments for the smallest
\* k >= 1 at which its name differs from the name of every other member of
\* the group that has at least k segments, unless that name is longer than
\* the length limit and is truncated.
C18_MinimalContext ==
    (NamesAssigned /\ PairwiseDistinctPaths) =>
        \A i \in 1..Len(zoxide_directories) :
            (C17_Group(i) # {i} /\ ~C17_Nested(i)) =>
                \/ zoxide_directories[i].session_name = C17_Context(i, C18_Accepted(i))
                \/ BLen(C17_Context(i, C18_Accepted(i))) > max_length


\* The characters of the candidate paths in the order of their code points
CodePointOrder ==
    <<".", "/", "0", "1", "2", "3", "4", "5", "6", "7", "8", "9">> \o LowerCase

CodePoint(c) == MinOr({k \in 1..Len(CodePointOrder) : CodePointOrder[k] = c}, 0)

\* a <= b in the order of strings
RECURSIVE StringLeq(_, _)
StringLeq(a, b) ==
    IF a = <<>> THEN TRUE
    ELSE IF b = <<>> THEN FALSE
    ELSE IF a[1] = b[1] THEN StringLeq(Tail(a), Tail(b))
    ELSE CodePoint(a[1]) < CodePoint(b[1])

\* C22: after a ranking refresh the stored candidates are in descending
\* order of ranking, and candidates of equal ranking are in ascending order
\* of directory path, whatever the order of the lines of the output.
C22_SortedByRankingThenPath ==
    NamesAssigned =>
        \A i, j \in 1..Len(zoxide_directories) :
            i < j =>
                \/ zoxide_directories[i].ranking.milli > zoxide_directories[j].ranking.milli
                \/ /\ zoxide_directories[i].ranking.milli = zoxide_directories[j].ranking.milli
                   /\ StringLeq(zoxide_directories[i].directory,
                                zoxide_directories[j].directory)


\* Every context length of candidate i, up to all of its segments, gives a
\* name that another member of its group has at that length
C29_EveryContextCollides(i) ==
    /\ C17_Group(i) # {i}
    /\ \A k \in 1..C18_SegmentCount(i) : ~C18_DiffersAt(i, k)

\* C29: a candidate of a conflict set for which every context length
\* collides is named by its full normalized path, all of its segments joined
\* by the separator (unless that name is longer than the length limit)
C29_FullPathWhenEveryContextCollides ==
    (NamesAssigned /\ PairwiseDistinctPaths) =>
        \A i \in 1..Len(zoxide_directories) :
            C29_EveryContextCollides(i) =>
                \/ zoxide_directories[i].session_name
                        = C17_Context(i, C18_SegmentCount(i))
                \/ BLen(C17_Context(i, C18_SegmentCount(i))) > max_length

(***************************************************************************)
(* Spec: the main screen under ranking refreshes, session updates and the  *)
(* keys that move the cursor and edit the query.                           *)
(***************************************************************************)

MaxTerm == 2

\* The cursor of the main list is never clamped when the list shrinks, so
\* Down can walk it upwards without limit; the model stops it here
MaxIndex == 5

QueryChars == {"a", "A", "c"}

SpecConfigurations ==
    { <<>>,
      "show_resurrectable_sessions" :> <<"t", "r", "u", "e">> }

SpecOutputs ==
    { <<"1", "0", " ", "/", "w", "/", "a", "p", "i", "\n",
        "5", " ", "/", "p", "/", "A", "p", "i", "\n">>,
      <<"8", " ", "/", "c", "/", "p", "r", "j", "\n">>,
      <<"8", " ", "/", "c", "/", "p", "r", "j", "\n",
        "3", " ", "/", "d", "/", "p", "r", "j", ".", "2", "\n">> }

SpecSessionLists ==
    { <<>>,
      <<Session(<<"p", "r", "j", ".", "2">>, FALSE), Session(<<"z", "z">>, TRUE)>>,
      <<Session(<<"a", "p", "i">>, FALSE), Session(<<"p", "r", "j">>, FALSE),
        Session(<<"p", "r", "j", ".", "2">>, FALSE)>> }

SpecResurrectableLists ==
    { <<>>,
      <<Resurrectable(<<"A", "p", "i">>, 3661), Resurrectable(<<"o", "l", "d">>, 60),
        Resurrectable(<<"p", "r", "j", ".", "3">>, 5)>> }

UpKey == KeyOf(<<"Up">>, {})
DownKey == KeyOf(<<"Down">>, {})
BackspaceKey == KeyOf(<<"Backspace">>, {})
EscKey == KeyOf(<<"Esc">>, {})
CharKey(c) == KeyOf(<<"Char", c>>, {})

\* The random draws of a handler: the 8 characters of a UUID for the
\* fallback name, a UUID for a file picker request
Rand(token, request_id) == [token |-> token, request_id |-> request_id]
SpecRand == Rand(<<"0", "1", "2", "3", "a", "b", "c", "d">>, "uuid-1")

Init ==
    \E configuration \in SpecConfigurations :
        /\ InitialState(DefaultState(configuration))
        /\ call = [op |-> "none"]

Refresh ==
    \E output \in SpecOutputs :
        /\ RunCommandResult(Some(0), output, "", TRUE)
        /\ UNCHANGED call

Sessions ==
    \E session_infos \in SpecSessionLists, resurrectable \in SpecResurrectableLists :
        /\ SessionUpdate(session_infos, resurrectable)
        /\ UNCHANGED call

MoveUp == KeyEvent(UpKey, SpecRand) /\ UNCHANGED call

MoveDown ==
    /\ IsSome(selected_index) => Unwrap(selected_index) < MaxIndex
    /\ KeyEvent(DownKey, SpecRand)
    /\ UNCHANGED call

TypeChar ==
    \E c \in QueryChars :
        /\ Len(search_engine.search_term) < MaxTerm
        /\ KeyEvent(CharKey(c), SpecRand)
        /\ UNCHANGED call

Backspace == KeyEvent(BackspaceKey, SpecRand) /\ UNCHANGED call

Escape == KeyEvent(EscKey, SpecRand) /\ UNCHANGED call

Next == Refresh \/ Sessions \/ MoveUp \/ MoveDown \/ TypeChar \/ Backspace \/ Escape

Spec == Init /\ [][Next]_vars

IsDirectoryItem(item) == item.kind = "Directory"

\* C4: the list built by combined_items holds exactly one Directory item per
\* candidate, with the candidate's path and session_name, in candidate
\* order, behind every session-like item, however many live or recoverable
\* sessions match the candidate.
C4_OneDirectoryItemPerCandidate ==
    /\ SelectSeq(combined_items, IsDirectoryItem)
         = [i \in 1..Len(zoxide_directories) |->
               [kind |-> "Directory", path |-> zoxide_directories[i].directory,
                session_name |-> zoxide_directories[i].session_name]]
    /\ \A i, j \in 1..Len(combined_items) :
          (i < j /\ IsDirectoryItem(combined_items[i])) => IsDirectoryItem(combined_items[j])

\* C4 witness: one candidate, matched by two live sessions and by a
\* recoverable one, all three listed
C4_Witness ==
    /\ Len(zoxide_directories) = 1
    /\ Cardinality({i \in 1..Len(combined_items) :
                       combined_items[i].kind = "ExistingSession"}) = 2
    /\ \E i \in 1..Len(combined_items) : combined_items[i].kind = "ResurrectableSession"

\* C7: is_searching holds exactly when the search term is non-empty, and with
\* an empty term the result list is empty and the engine's selected index is
\* unset.
C7_SearchingIffTermNonEmpty ==
    /\ search_engine.is_searching <=> (search_engine.search_term # <<>>)
    /\ search_engine.search_term = <<>> =>
          (search_engine.results = <<>> /\ search_engine.selected_index = None)

\* C7 witness: Searching, two characters typed and results found
C7_Witness ==
    /\ search_engine.is_searching
    /\ Len(search_engine.search_term) = 2
    /\ search_engine.results # <<>>
    /\ IsSome(search_engine.selected_index)

C8_Repaired(previous, count) ==
    IF count = 0 THEN None
    ELSE IF previous # None /\ previous[1] >= count THEN Some(count - 1)
    ELSE IF previous = None THEN Some(0)
    ELSE previous

\* The number of results of the first of the two recomputations of a session
\* update: the new live sessions with the recoverable sessions of before
C8_AfterSessions ==
    Len(Matches(CombinedItemsOf(
                    [session_manager EXCEPT !.sessions = session_manager'.sessions],
                    zoxide_directories, config.show_resurrectable_sessions),
                search_engine.search_term))

\* C8: a search recomputation with a non-empty query (a changed query, a new
\* candidate list, and each of the two recomputations of a session update)
\* leaves the selection unset when there are no results, at the last index
\* when the previous index is out of range, at 0 when there was no previous
\* selection, and unchanged otherwise.
C8_SelectionRepair ==
    [][search_engine'.is_searching =>
          /\ (/\ session_manager' = session_manager
              /\ \/ search_engine'.search_term # search_engine.search_term
                 \/ zoxide_directories' # zoxide_directories)
             => search_engine'.selected_index
                  = C8_Repaired(search_engine.selected_index, Len(search_engine'.results))
          /\ (session_manager' # session_manager)
             => search_engine'.selected_index
                  = C8_Repaired(C8_Repaired(search_engine.selected_index, C8_AfterSessions),
                                Len(search_engine'.results))]_vars

\* C8 witness: two characters typed, several results, the selection on the
\* last of them
C8_Witness ==
    /\ search_engine.is_searching
    /\ Len(search_engine.search_term) = 2
    /\ Len(search_engine.results) >= 2
    /\ search_engine.selected_index = Some(Len(search_engine.results) - 1)

\* The length of the active list and the selection in it
ActiveLength ==
    IF search_engine.is_searching THEN Len(search_engine.results) ELSE Len(combined_items)

ActiveSelection(engine, main_index) ==
    IF engine.is_searching THEN engine.selected_index ELSE main_index

C9_Up(previous, n) ==
    IF n = 0 THEN previous
    ELSE IF previous = None \/ previous = Some(0) THEN Some(n - 1)
    ELSE Some(previous[1] - 1)

C9_Down(previous, n) ==
    IF n = 0 THEN previous
    ELSE IF previous = None \/ previous = Some(n - 1) THEN Some(0)
    ELSE Some(previous[1] + 1)

\* C9: over the active list of length n, Up selects n-1 from an unset
\* selection and from index 0 and i-1 from any other index i; Down selects 0
\* from an unset selection and from index n-1 and i+1 from any other index
\* i; on an empty active list neither changes the selection.
C9_CursorWraps ==
    [][/\ MoveUp => ActiveSelection(search_engine', selected_index')
                      = C9_Up(ActiveSelection(search_engine, selected_index), ActiveLength)
       /\ MoveDown => ActiveSelection(search_engine', selected_index')
                        = C9_Down(ActiveSelection(search_engine, selected_index),
                                  ActiveLength)]_vars

\* C9 witness: the main list has three items or more and the cursor is on
\* the last of them
C9_Witness ==
    /\ ~search_engine.is_searching
    /\ Len(combined_items) >= 3
    /\ selected_index = Some(Len(combined_items) - 1)

\* The query characters occur in the text in their order, from position from
\* on; fold_case: ASCII letters are compared without their case
RECURSIVE OccursInOrder(_, _, _, _)
OccursInOrder(query, text, from, fold_case) ==
    \/ query = <<>>
    \/ \E i \in from..Len(text) :
          /\ IF fold_case THEN ToAsciiLower(text[i]) = ToAsciiLower(query[1])
             ELSE text[i] = query[1]
          /\ OccursInOrder(Tail(query), text, i + 1, fold_case)

HasUpperCase(query) == \E i \in 1..Len(query) : \E j \in 1..26 : query[i] = UpperCase[j]

\* Every item is among the results as often as it is among the matching
\* items of the reconciled list
ResultsAreTheMatching(IsMatch(_)) ==
    \A x \in {combined_items[i] : i \in 1..Len(combined_items)}
              \union {search_engine.results[k].item : k \in 1..Len(search_engine.results)} :
        Cardinality({k \in 1..Len(search_engine.results) : search_engine.results[k].item = x})
          = Cardinality({i \in 1..Len(combined_items) :
                            combined_items[i] = x /\ IsMatch(combined_items[i])})

\* C10 as stated: with a non-empty query the results are the items of the
\* reconciled list whose rendered text holds the characters of the query in
\* their order, each once, and nothing else.
C10_ResultsAreSubsequenceMatches ==
    search_engine.is_searching =>
        ResultsAreTheMatching(
            LAMBDA item : OccursInOrder(search_engine.search_term,
                                        get_display_text_for_search(item), 1, FALSE))

\* C10, with the comparison of characters made explicit: with a non-empty query the results are the items of the
\* reconciled list whose rendered text holds the characters of the query in
\* their order, each once, and nothing else; the characters are compared
\* exactly when the query holds an upper-case letter and without regard to
\* ASCII case when it holds none.
C10_ResultsAreSmartCaseMatches ==
    search_engine.is_searching =>
        ResultsAreTheMatching(
            LAMBDA item : OccursInOrder(search_engine.search_term,
                                        get_display_text_for_search(item), 1,
                                        ~HasUpperCase(search_engine.search_term)))

\* C10 witness: the query "a" finds the candidate /p/Api, whose text holds
\* no lower-case a
C10_Witness ==
    /\ search_engine.search_term = <<"a">>
    /\ \E k \in 1..Len(search_engine.results) :
          /\ search_engine.results[k].item.kind = "Directory"
          /\ search_engine.results[k].item.path = <<"/", "p", "/", "A", "p", "i">>


\* The first position of an item in the reconciled list
PositionOf(item) == MinOr({i \in 1..Len(combined_items) : combined_items[i] = item}, 0)

SameBlock(a, b) == IsSessionLike(a.item) = IsSessionLike(b.item)

\* C11: in the results every session-like item stands before every
\* Directory item whatever the scores; within the session-like items and
\* within the Directory items the scores descend; items of one block with
\* the same score stand in the order they have in the reconciled list.
C11_ResultOrder ==
    search_engine.is_searching =>
        \A i, j \in 1..Len(search_engine.results) :
            i < j =>
                With(search_engine.results[i], LAMBDA a :
                With(search_engine.results[j], LAMBDA b :
                    /\ ~(IsDirectoryItem(a.item) /\ IsSessionLike(b.item))
                    /\ SameBlock(a, b) => a.score >= b.score
                    /\ (SameBlock(a, b) /\ a.score = b.score)
                       => PositionOf(a.item) <= PositionOf(b.item)))

\* C11 witness: a session-like result stands before a Directory result of a
\* higher score, and the session-like results are not in the order of the
\* reconciled list
C11_Witness ==
    /\ search_engine.is_searching
    /\ \E i, j \in 1..Len(search_engine.results) :
          /\ i < j
          /\ IsSessionLike(search_engine.results[i].item)
          /\ IsDirectoryItem(search_engine.results[j].item)
          /\ search_engine.results[i].score < search_engine.results[j].score
    /\ \E i, j \in 1..Len(search_engine.results) :
          /\ i < j
          /\ SameBlock(search_engine.results[i], search_engine.results[j])
          /\ PositionOf(search_engine.results[i].item)
               > PositionOf(search_engine.results[j].item)


\* The name equals the candidate's session_name or is an incremented form of it
C12_Matches(name, candidate) ==
    name = candidate.session_name \/ is_incremented_session(name, candidate.session_name)

C12_MatchingCandidates(name) ==
    {j \in 1..Len(zoxide_directories) : C12_Matches(name, zoxide_directories[j])}

\* C12: the ExistingSession items of the reconciled list are, in session
\* order, one item for each live session that matches a candidate, with the
\* directory of the first candidate it matches in candidate order; a
\* session that matches no candidate has no item.
C12_OneItemPerMatchingSession ==
    With(SelectSeq(session_manager.sessions,
                   LAMBDA s : C12_MatchingCandidates(s.name) # {}),
         LAMBDA matching :
             SelectSeq(combined_items, LAMBDA item : item.kind = "ExistingSession")
               = [k \in 1..Len(matching) |->
                    [kind |-> "ExistingSession", name |-> matching[k].name,
                     directory |->
                        zoxide_directories[MinOr(C12_MatchingCandidates(matching[k].name),
                                                 0)].directory,
                     is_current |-> matching[k].is_current_session]])

\* C12 witness: a session that matches two candidates, listed once with the
\* directory of the first, next to a session that matches none
C12_Witness ==
    /\ \E i \in 1..Len(session_manager.sessions) :
          /\ Cardinality(C12_MatchingCandidates(session_manager.sessions[i].name)) = 2
          /\ \E k \in 1..Len(combined_items) :
                /\ combined_items[k].kind = "ExistingSession"
                /\ combined_items[k].name = session_manager.sessions[i].name
    /\ \E i \in 1..Len(session_manager.sessions) :
          C12_MatchingCandidates(session_manager.sessions[i].name) = {}


IsResurrectableItem(item) == item.kind = "ResurrectableSession"

\* C14: with show_resurrectable_sessions false the reconciled list holds no
\* ResurrectableSession item whatever the recoverable sessions are; with it
\* true the list holds one ResurrectableSession item for each recoverable
\* session whose name equals or is an incremented form of a candidate's
\* session_name, and none for the others.
C14_ResurrectableItems ==
    SelectSeq(combined_items, IsResurrectableItem)
      = IF config.show_resurrectable_sessions
        THEN With(SelectSeq(session_manager.resurrectable_sessions,
                            LAMBDA r : C12_MatchingCandidates(r.name) # {}),
                  LAMBDA matching :
                      [k \in 1..Len(matching) |->
                          [kind |-> "ResurrectableSession", name |-> matching[k].name,
                           duration |-> matching[k].duration]])
        ELSE <<>>

\* C14 witness: recoverable sessions are shown; one of them matches a
\* candidate and is listed, another matches none and is not
C14_Witness ==
    /\ config.show_resurrectable_sessions
    /\ \E k \in 1..Len(combined_items) : IsResurrectableItem(combined_items[k])
    /\ \E i \in 1..Len(session_manager.resurrectable_sessions) :
          C12_MatchingCandidates(session_manager.resurrectable_sessions[i].name) = {}


\* C27: whenever the query is non-empty, the results are the search of the
\* query over the reconciled list of the sessions, the recoverable sessions
\* and the candidates now stored, after edits of the query as after session
\* updates and ranking refreshes
C27_ResultsAreCurrent ==
    search_engine.search_term # <<>> =>
        search_engine.results =
            SortResults(Matches(CombinedItemsIn(Cur), search_engine.search_term))

\* A query whose results hold a live session, a recoverable session and a
\* candidate
C27_Witness ==
    /\ search_engine.search_term # <<>>
    /\ \E i, j, k \in 1..Len(search_engine.results) :
            /\ search_engine.results[i].item.kind = "ExistingSession"
            /\ search_engine.results[j].item.kind = "ResurrectableSession"
            /\ search_engine.results[k].item.kind = "Directory"


\* C32: the selected index of the search engine, when set, is less than the
\* number of results; while searching it is unset exactly when there are no
\* results
C32_SearchSelectionValid ==
    /\ IsSome(search_engine.selected_index) =>
            Unwrap(search_engine.selected_index) < Len(search_engine.results)
    /\ search_engine.is_searching =>
            (search_engine.selected_index = None <=> search_engine.results = <<>>)

\* The last of several results is selected
C32_Witness ==
    /\ search_engine.is_searching
    /\ Len(search_engine.results) >= 2
    /\ search_engine.selected_index = Some(Len(search_engine.results) - 1)


\* C33: the selected index of the main list, when set, is a valid index
\* into the current reconciled list
C33_MainSelectionValid ==
    IsSome(selected_index) => Unwrap(selected_index) < Len(CombinedItemsIn(Cur))


\* C34: typing a character, Backspace, Esc, and the cursor keys while
\* searching leave the selection of the main list as it was; when the query
\* becomes empty again the reported selection is that selection
C34_MainSelectionKept ==
    /\ selected_index' = selected_index
    /\ (search_engine.is_searching /\ ~search_engine'.is_searching) =>
            (IF search_engine'.is_searching THEN search_engine'.selected_index
             ELSE selected_index') = selected_index

C34_SearchKeepsMainSelection ==
    [][\/ C34_MainSelectionKept
       \/ ~(\/ TypeChar \/ Backspace \/ Escape
            \/ (search_engine.is_searching /\ (MoveUp \/ MoveDown)))]_vars

\* While searching, the selection of the results differs from the selection
\* of the main list, which is set
C34_Witness ==
    /\ search_engine.is_searching
    /\ IsSome(selected_index)
    /\ IsSome(search_engine.selected_index)
    /\ search_engine.selected_index # selected_index


\* The session lists in which a live session of the given name has appeared
C37_Appeared(name) ==
    { Append(session_manager.sessions, Session(name, FALSE)),
      <<Session(name, TRUE)>> \o session_manager.sessions,
      <<Session(name, FALSE)>> }

\* generate_incremented_name returns the base name or a numbered name
C37_Numbered(base_name) ==
    \/ /\ base_name \notin SessionNames(session_manager.sessions)
       /\ base_name \notin ResurrectableNames(session_manager.resurrectable_sessions)
    \/ FirstFreeCounter(SessionNames(session_manager.sessions), base_name,
                        config.session_separator) # 0

C37_Generated(i) ==
    generate_incremented_name(zoxide_directories[i].session_name,
                              config.session_separator, SpecRand.token)

\* C37: for every candidate, when generate_incremented_name gives the base
\* name or a numbered name and a live session of that name appears, the list
\* reconciled after the session update holds an ExistingSession item of
\* that name
C37_GeneratedNameIsRecognised ==
    \A i \in 1..Len(zoxide_directories) :
        C37_Numbered(zoxide_directories[i].session_name) =>
            With(C37_Generated(i), LAMBDA name :
                \A sessions \in C37_Appeared(name) :
                    With(CombinedItemsIn(update_sessions(Cur, sessions)), LAMBDA items :
                        \E k \in 1..Len(items) :
                            /\ items[k].kind = "ExistingSession"
                            /\ items[k].name = name))

\* The numbered name of the candidate prj is prj.3, and the session prj.2,
\* numbered earlier, is in the reconciled list
C37_Witness ==
    /\ \E i \in 1..Len(zoxide_directories) :
          /\ zoxide_directories[i].session_name = <<"p", "r", "j">>
          /\ C37_Generated(i) = <<"p", "r", "j", ".", "3">>
    /\ \E k \in 1..Len(combined_items) :
          /\ combined_items[k].kind = "ExistingSession"
          /\ combined_items[k].name = <<"p", "r", "j", ".", "2">>


(***************************************************************************)
(* SpecIncrement: generate_incremented_name applied to a base name under   *)
(* every small content of the two session lists, and under the list that   *)
(* takes every numbered candidate.                                         *)
(***************************************************************************)

MaxSessions == 2
MaxRecoverable == 1

Proj == <<"p", "r", "o", "j">>

IncrementNames ==
    { Proj, Proj \o <<".", "2">>, Proj \o <<".", "3">>, Proj \o <<"-", "2">>,
      <<"a", "p", "i">> }

IncrementBases == { Proj, <<"a", "p", "i">> }

IncrementTokens ==
    { <<"0", "1", "2", "3", "a", "b", "c", "d">>,
      <<"f", "e", "d", "c", "b", "a", "9", "8">> }

IncrementConfigurations == { <<>>, "session_separator" :> <<"-">> }

\* The names of a session list that holds Proj and every candidate Proj.n
SaturatedNames ==
    [n \in 1..MaxCounter |-> IF n = 1 THEN Proj ELSE Proj \o <<".">> \o ToDecimal(n)]

IncrementInputs ==
    [configuration : IncrementConfigurations,
     live : DistinctSeqs(IncrementNames, MaxSessions),
     recoverable : DistinctSeqs(IncrementNames, MaxRecoverable),
     base_name : IncrementBases,
     token : IncrementTokens]
    \union
    [configuration : {<<>>}, live : {SaturatedNames}, recoverable : {<<>>},
     base_name : {Proj}, token : IncrementTokens]

IncrementInit ==
    \E in \in IncrementInputs :
        /\ InitialState(
             [DefaultState(in.configuration) EXCEPT
                !.session_manager.sessions =
                    [i \in 1..Len(in.live) |-> Session(in.live[i], FALSE)],
                !.session_manager.resurrectable_sessions =
                    [i \in 1..Len(in.recoverable) |-> Resurrectable(in.recoverable[i], 60)]])
        /\ call = [op |-> "generate_incremented_name", base_name |-> in.base_name,
                   token |-> in.token, done |-> FALSE, result |-> <<>>]

IncrementCall ==
    /\ call.op = "generate_incremented_name" /\ ~call.done
    /\ call' = [call EXCEPT
                  !.done = TRUE,
                  !.result = generate_incremented_name(call.base_name,
                                                       config.session_separator,
                                                       call.token)]
    /\ UNCHANGED <<config, session_manager, zoxide_directories, search_engine,
                   new_session_info, active_screen, error, current_session_name,
                   request_ids, selected_index, host_calls, panicked>>

IncrementNext == IncrementCall

SpecIncrement == IncrementInit /\ [][IncrementNext]_vars

IncrementReturned == call.op = "generate_incremented_name" /\ call.done

LiveNames == {session_manager.sessions[i].name : i \in 1..Len(session_manager.sessions)}

RecoverableNames ==
    {session_manager.resurrectable_sessions[i].name :
        i \in 1..Len(session_manager.resurrectable_sessions)}

Numbered(n) == call.base_name \o config.session_separator \o ToDecimal(n)

\* C5: generate_incremented_name returns the base name unchanged when it names
\* no live and no recoverable session; otherwise the base name, the separator
\* and the smallest n in 2..=1000 whose candidate is no live session's name;
\* and the base name, the separator and the 8-character token only when
\* every such candidate is a live session's name.
C5_IncrementedName ==
    IncrementReturned =>
        IF call.base_name \notin (LiveNames \union RecoverableNames)
        THEN call.result = call.base_name
        ELSE IF \E n \in 2..1000 : Numbered(n) \notin LiveNames
        THEN \E n \in 2..1000 :
                /\ call.result = Numbered(n)
                /\ Numbered(n) \notin LiveNames
                /\ \A m \in 2..(n - 1) : Numbered(m) \in LiveNames
        ELSE /\ call.result = call.base_name \o config.session_separator \o call.token
             /\ Len(call.token) = 8

\* C5 witness: the live names {proj, proj.2} give proj.3
C5_Witness ==
    /\ IncrementReturned
    /\ LiveNames = {Proj, Proj \o <<".", "2">>}
    /\ call.base_name = Proj
    /\ call.result = Proj \o <<".", "3">>

\* C6: the name generate_incremented_name returns is the name of no live
\* session and of no recoverable session.
C6_NeverAnExistingName ==
    IncrementReturned => call.result \notin (LiveNames \union RecoverableNames)

(***************************************************************************)
(* SpecFunctions: the functions of the resolver and of the reconciliation  *)
(* applied to arguments drawn from bounded sets.                           *)
(***************************************************************************)

MaxSuffix == 3

SuffixChars == {"0", "2", "+", "x"}

Suffixes == UNION {[1..k -> SuffixChars] : k \in 0..MaxSuffix}

\* Session names: proj, a link (nothing, "." or "-") and a suffix, and the
\* two numbers around u32::MAX
IncrementedNames ==
    {Proj \o link \o suffix : link \in {<<>>, <<".">>, <<"-">>}, suffix \in Suffixes}
    \union {Proj \o <<".">> \o U32MaxDigits,
            Proj \o <<".", "4", "2", "9", "4", "9", "6", "7", "2", "9", "6">>}

IncrementedConfigurations == {<<>>, "session_separator" :> <<"-">>}

IncrementedCalls ==
    [op : {"is_incremented_session"}, configuration : IncrementedConfigurations,
     session_name : IncrementedNames, base_name : {Proj}, done : {FALSE},
     result : {FALSE}]

MaxSegment == 4

SegmentChars == {"a", "1", "-", "_", "é"}

AbbreviateCalls ==
    [op : {"abbreviate_segment"}, configuration : {<<>>},
     segment : UNION {[1..k -> SegmentChars] : k \in 0..MaxSegment},
     done : {FALSE}, result : {<<>>}]

NormalizeConfigurations ==
    { <<>>,
      "base_paths" :> <<"/", "w", "|", "/", "w", "/", "a">>,
      "base_paths" :> <<"/", "w", "/">>,
      "base_paths" :> <<"/", "é">> }

NormalizePaths ==
    { <<"/", "w">>, <<"/", "w", "/">>, <<"/", "w", "/", "a">>,
      <<"/", "w", "/", "a", "/", "b">>, <<"/", "w", "a", "/", "b">>,
      <<"/", "w", "/", "a", "b">>, <<"/", "w", "/", "/", "a">>,
      <<"/", "p", "/", "a">>, <<"/", "é">>, <<"/", "é", "/", "x">>,
      <<"/", "é", "a", "/">>, <<"/", "é", "a", "b", "/", "c">>,
      <<"/", "h", "/", "x">> }

NormalizeCalls ==
    [op : {"normalize_path"}, configuration : NormalizeConfigurations,
     path : NormalizePaths, done : {FALSE}, result : {<<>>}]

MaxPathSegments == 4

\* Eight parts of a three-byte character and a letter, and sixteen parts of
\* two letters, joined by "-": abbreviated to 31 bytes each
WideParts == Join([i \in 1..8 |-> <<"●", "x">>], <<"-">>)
AsciiParts == Join([i \in 1..16 |-> <<"a", "b">>], <<"-">>)

EightParts ==
    <<"a", "-", "b", "-", "c", "-", "d", "-", "e", "-", "f", "-", "g", "-", "h">>

TruncationSegments == { <<"a">>, LongSegment, EightParts, WideParts, AsciiParts }

TruncationConfigurations ==
    { <<>>,
      "session_separator" :> <<"-", "-">> }

TruncationCalls ==
    [op : {"apply_smart_truncation"}, configuration : TruncationConfigurations,
     segments : UNION {[1..k -> TruncationSegments] : k \in 0..MaxPathSegments},
     min_segments : 0..MaxPathSegments,
     done : {FALSE}, result : {<<>>}]

FunctionCalls ==
    IncrementedCalls \union AbbreviateCalls \union NormalizeCalls
        \union TruncationCalls

FunctionsInit ==
    \E c \in FunctionCalls :
        /\ InitialState(DefaultState(c.configuration))
        /\ call = c

StateUnchanged ==
    UNCHANGED <<config, session_manager, zoxide_directories, search_engine,
                new_session_info, active_screen, error, current_session_name,
                request_ids, selected_index, host_calls, panicked>>

IncrementedCall ==
    /\ call.op = "is_incremented_session" /\ ~call.done
    /\ call' = [call EXCEPT
                  !.done = TRUE,
                  !.result = is_incremented_session(call.session_name, call.base_name)]
    /\ StateUnchanged

AbbreviateCall ==
    /\ call.op = "abbreviate_segment" /\ ~call.done
    /\ call' = [call EXCEPT !.done = TRUE, !.result = abbreviate_segment(call.segment)]
    /\ StateUnchanged

NormalizeCall ==
    /\ call.op = "normalize_path" /\ ~call.done
    /\ call' = [call EXCEPT !.done = TRUE, !.result = normalize_path(call.path)]
    /\ StateUnchanged

TruncationCall ==
    /\ call.op = "apply_smart_truncation" /\ ~call.done
    /\ call' = [call EXCEPT
                  !.done = TRUE,
                  !.result = apply_smart_truncation(call.segments, call.min_segments)]
    /\ StateUnchanged

FunctionsNext == IncrementedCall \/ AbbreviateCall \/ NormalizeCall \/ TruncationCall

SpecFunctions == FunctionsInit /\ [][FunctionsNext]_vars

IncrementedReturned == call.op = "is_incremented_session" /\ call.done

\* The text is a positive integer written with digits only
IsPositiveInteger(text) ==
    /\ text # <<>>
    /\ \A i \in 1..Len(text) : text[i] \in DigitSet
    /\ \E i \in 1..Len(text) : text[i] # "0"

\* C13: is_incremented_session(name, base) is true exactly when name starts
\* with base and the separator and the rest is a positive integer written
\* with digits only: no sign, no other character, not zero, not empty.
C13_IncrementedIffPositiveInteger ==
    IncrementedReturned =>
        (call.result
           <=> With(call.base_name \o config.session_separator, LAMBDA prefix :
                   /\ StartsWith(call.session_name, prefix)
                   /\ IsPositiveInteger(SubSeq(call.session_name, Len(prefix) + 1,
                                               Len(call.session_name)))))

AbbreviateReturned == call.op = "abbreviate_segment" /\ call.done

\* C19: abbreviate_segment returns its argument unchanged for every segment
\* of at most 3 bytes, the segments that hold '-' or '_' included.
C19_ShortSegmentUnchanged ==
    (AbbreviateReturned /\ BLen(call.segment) <= 3) => call.result = call.segment

\* C19 witness: the 3-byte segment "a-_" is returned unchanged
C19_Witness ==
    /\ AbbreviateReturned
    /\ call.segment = <<"a", "-", "_">>
    /\ call.result = <<"a", "-", "_">>

NormalizeReturned == call.op = "normalize_path" /\ call.done

\* The configured base paths, without their trailing slashes, that match the
\* path at a component boundary: the path is the base path, or the character
\* right after the base path is '/'
C20_MatchingBases(path) ==
    {b \in {TrimEndSlashes(config.base_paths[i]) : i \in 1..Len(config.base_paths)} :
        /\ StartsWith(path, b)
        /\ (Len(path) = Len(b) \/ path[Len(b) + 1] = "/")}

\* The path without the base path and the '/' that follows it
C20_Stripped(path, b) == SubSeq(path, Len(b) + 2, Len(path))

\* C20: with base paths configured, normalize_path returns the path without
\* the longest base path that matches it at a component boundary and without
\* the following '/'; it returns the path unchanged when no base path
\* matches or when nothing would be left; a base path that is a prefix of
\* the path but ends inside a component does not match.
C20_NormalizePath ==
    (NormalizeReturned /\ config.base_paths # <<>>) =>
        With(C20_MatchingBases(call.path), LAMBDA matching :
            IF matching = {} THEN call.result = call.path
            ELSE With(CHOOSE b \in matching : \A c \in matching : Len(c) <= Len(b),
                      LAMBDA longest :
                          call.result = IF C20_Stripped(call.path, longest) = <<>>
                                        THEN call.path
                                        ELSE C20_Stripped(call.path, longest)))

\* The home directory of the user who runs the plugin
HomeDirectory == <<"/", "h">>

\* C21: with no base paths configured, normalize_path returns a path that
\* lies under the user's home directory without the home directory prefix,
\* and every other path unchanged.
C21_HomePrefixStripped ==
    (NormalizeReturned /\ config.base_paths = <<>>) =>
        call.result
          = IF /\ StartsWith(call.path, HomeDirectory \o <<"/">>)
               /\ Len(call.path) > Len(HomeDirectory) + 1
            THEN SubSeq(call.path, Len(HomeDirectory) + 2, Len(call.path))
            ELSE call.path


TruncationReturned == call.op = "apply_smart_truncation" /\ call.done

\* C28: apply_smart_truncation returns a string of at most 29 bytes for
\* every segment list, every min_segments and every separator
C28_TruncatedToMaxLength ==
    TruncationReturned =>
        /\ call.result # Panic
        /\ BLen(call.result) <= max_length


\* The joins of the segments j..last, each verbatim or abbreviated, and the
\* cuts at the length limit of the last segment alone
C31_Runs(segments, separator) ==
    UNION { { Join([m \in 1..k |->
                        IF pick[m] THEN abbreviate_segment(LastK(segments, k)[m])
                        ELSE LastK(segments, k)[m]],
                   separator) : pick \in [1..k -> BOOLEAN] } :
            k \in 1..Len(segments) }
    \union { TruncateBytes(segments[Len(segments)], max_length),
             TruncateBytes(abbreviate_segment(segments[Len(segments)]), max_length) }

\* C31: the name apply_smart_truncation returns is the join of a contiguous
\* run of the segments that ends with the last one, each segment verbatim,
\* abbreviated or, when alone, cut at the length limit (for the calls the
\* resolver makes, with at least one segment required, that return)
C31_RightAnchoredRun ==
    (/\ TruncationReturned /\ call.result # Panic
     /\ call.segments # <<>> /\ call.min_segments >= 1) =>
        call.result \in C31_Runs(call.segments, config.session_separator)


\* C40: abbreviate_segment returns no more bytes than its segment has, also
\* for a segment with '-' or '_' at its start, at its end or next to each other
C40_AbbreviationNotLonger ==
    (call.op = "abbreviate_segment" /\ call.done) =>
        BLen(call.result) <= BLen(call.segment)

(***************************************************************************)
(* SpecScreens: both screens of the plugin, with the events that set and   *)
(* clear the error message.  Ranking refreshes succeed, fail or belong to  *)
(* another command; the keys select, create, delete, edit and dismiss.     *)
(* The query stays empty here: searching is the subject of Spec.           *)
(***************************************************************************)

MaxName == 2

\* The cursor of the main list is stopped here (see MaxIndex)
MaxCursor == 3

\* A basename of 36 three-byte characters: 108 bytes
LongBasename == Repeat("●", 36)

ScreenChars == {"z", "/"}

ScreenConfigurations ==
    { "show_resurrectable_sessions" :> <<"t", "r", "u", "e">>,
      "session_separator" :> <<"/">> }

ScreenOutputs ==
    { <<"9", " ", "/", "c", "/", "z", "z", "\n",
        "8", " ", "/", "c", "/", "z", "z", "/", "f", "e", "\n",
        "7", " ", "/">> \o LongBasename \o <<"\n">> }

ScreenSessionLists ==
    { <<>>,
      <<Session(<<"z", "z">>, TRUE)>> }

ScreenResurrectableLists ==
    { <<>>,
      <<Resurrectable(<<"z", "z", ".", "2">>, 60)>> }

\* The keys pressed while a deletion awaits its confirmation, besides those
\* of the other actions
PendingKeys ==
    { CharKey("y"), CharKey("Y"), CharKey("n"), CharKey("N"), CharKey("z"),
      KeyOf(<<"Char", "y">>, {"Ctrl"}) }

ScreenExitCodes == {None, Some(1)}

ScreenStderr == "zoxide: command not found"

EnterKey == KeyOf(<<"Enter">>, {})
CtrlEnterKey == KeyOf(<<"Enter">>, {"Ctrl"})
DeleteKey == KeyOf(<<"Delete">>, {})

ScreensInit ==
    \E configuration \in ScreenConfigurations :
        /\ InitialState(DefaultState(configuration))
        /\ call = [op |-> "none"]

RefreshSucceeded ==
    \E output \in ScreenOutputs :
        /\ RunCommandResult(Some(0), output, "", TRUE)
        /\ UNCHANGED call

RefreshFailed ==
    \E exit_code \in ScreenExitCodes, output \in ScreenOutputs :
        /\ RunCommandResult(exit_code, output, ScreenStderr, TRUE)
        /\ UNCHANGED call

OtherCommandResult ==
    \E exit_code \in ScreenExitCodes \cup {Some(0)}, output \in ScreenOutputs :
        /\ RunCommandResult(exit_code, output, ScreenStderr, FALSE)
        /\ UNCHANGED call

ScreenSessions ==
    \E session_infos \in ScreenSessionLists, resurrectable \in ScreenResurrectableLists :
        /\ SessionUpdate(session_infos, resurrectable)
        /\ UNCHANGED call

PressDown ==
    /\ IsSome(selected_index) => Unwrap(selected_index) < MaxCursor
    /\ KeyEvent(DownKey, SpecRand)
    /\ UNCHANGED call

PressEnter == KeyEvent(EnterKey, SpecRand) /\ UNCHANGED call

PressCtrlEnter == KeyEvent(CtrlEnterKey, SpecRand) /\ UNCHANGED call

PressEsc == KeyEvent(EscKey, SpecRand) /\ UNCHANGED call

PressBackspace ==
    /\ Len(new_session_info.name) <= MaxName + 1
    /\ KeyEvent(BackspaceKey, SpecRand)
    /\ UNCHANGED call

PressDelete == KeyEvent(DeleteKey, SpecRand) /\ UNCHANGED call

PressChar ==
    \E c \in ScreenChars :
        /\ active_screen = "NewSession"
        /\ Len(new_session_info.name) < MaxName
        /\ KeyEvent(CharKey(c), SpecRand)
        /\ UNCHANGED call

PressWhilePending ==
    \E key \in PendingKeys :
        /\ IsSome(session_manager.pending_deletion)
        /\ KeyEvent(key, SpecRand)
        /\ UNCHANGED call

ScreensNext ==
    \/ RefreshSucceeded \/ RefreshFailed \/ OtherCommandResult \/ ScreenSessions
    \/ PressDown \/ PressEnter \/ PressCtrlEnter \/ PressEsc \/ PressBackspace
    \/ PressDelete \/ PressChar \/ PressWhilePending

SpecScreens == ScreensInit /\ [][ScreensNext]_vars

\* Ctrl+Enter attempts a quick creation: nothing intercepts the key (no error
\* to dismiss, no deletion to confirm) and there is a name to create, the
\* typed name of the new-session screen or the name of the selected directory
C23_Attempt ==
    /\ ~panicked /\ error = None /\ session_manager.pending_deletion = None
    /\ \/ active_screen = "NewSession"
       \/ /\ selected_item(Cur) # None
          /\ ~IsSessionLike(Unwrap(selected_item(Cur)))

C23_Name ==
    IF active_screen = "NewSession" THEN new_session_info.name
    ELSE GenerateIncrementedName(session_manager,
                                 Unwrap(selected_item(Cur)).session_name,
                                 config.session_separator, SpecRand.token)

C23_Invalid ==
    \/ BLen(C23_Name) >= MaxNameBytes
    \/ Contains(C23_Name, "/")
    \/ Some(C23_Name) = current_session_name

C23_Rejected ==
    /\ IsSome(error')
    /\ \A i \in 1..Len(host_calls') :
            host_calls'[i].op \notin {"switch_session", "switch_session_with_cwd",
                                      "switch_session_with_layout"}
    /\ active_screen' = active_screen

\* C23: a quick creation (Ctrl+Enter on either screen) with a name of 108
\* bytes or more, a name containing "/" or the current session's name sets
\* an error, issues no create/switch call and leaves the active screen as
\* it was
C23_InvalidQuickCreationRejected ==
    [][(C23_Attempt /\ C23_Invalid /\ PressCtrlEnter) => C23_Rejected]_vars


C26_KeyPressed ==
    \/ PressDown \/ PressEnter \/ PressCtrlEnter \/ PressEsc \/ PressBackspace
    \/ PressDelete \/ PressChar

\* C26: while an error message is set, a key event of any key clears the
\* error and does nothing else: no call is issued, and the query, the search
\* results, the selections, the pending deletion, the active screen and the
\* new-session form stay as they were
C26_KeyDismissesError ==
    [][(IsSome(error) /\ C26_KeyPressed) =>
            /\ error' = None
            /\ host_calls' = <<>>
            /\ UNCHANGED <<search_engine, selected_index, session_manager,
                           active_screen, new_session_info, zoxide_directories,
                           current_session_name>>]_vars

\* The error of a failed refresh is shown over a deletion that awaits its
\* confirmation
C26_Witness ==
    /\ IsSome(error)
    /\ IsSome(session_manager.pending_deletion)
    /\ IsSome(selected_index)
    /\ zoxide_directories # <<>>


C35_Pending == ~panicked /\ error = None /\ IsSome(session_manager.pending_deletion)

C35_ConfirmKeys == {CharKey("y"), CharKey("Y")}
C35_CancelKeys == {CharKey("n"), CharKey("N"), EscKey}
C35_OtherKeys ==
    { DownKey, UpKey, EnterKey, CtrlEnterKey, BackspaceKey, DeleteKey, CharKey("z"),
      KeyOf(<<"Char", "y">>, {"Ctrl"}) }

\* The query, the results, the selections, the screen and the new-session
\* form stay as they were
C35_RestUnchanged ==
    UNCHANGED <<search_engine, selected_index, active_screen, new_session_info,
                zoxide_directories, error, current_session_name>>

C35_SameSessions ==
    /\ session_manager'.sessions = session_manager.sessions
    /\ session_manager'.resurrectable_sessions = session_manager.resurrectable_sessions

\* The one call of a confirmed deletion: delete_dead_session for a
\* recoverable name, kill_sessions otherwise
C35_KillCall ==
    /\ Len(host_calls') = 1
    /\ host_calls'[1].op \in {"kill_sessions", "delete_dead_session"}
    /\ host_calls'[1].name = Unwrap(session_manager.pending_deletion)

\* The selected item is a live or a recoverable session of the name that
\* becomes pending
C35_SessionSelected ==
    /\ selected_item(Cur) # None
    /\ IsSessionLike(Unwrap(selected_item(Cur)))
    /\ session_manager'.pending_deletion = Some(Unwrap(selected_item(Cur)).name)

\* C35: while a deletion awaits its confirmation and no error is shown, y
\* and Y issue the kill or delete for the pending name and clear the pending
\* state, n, N and Esc clear it with no call, and every other key changes
\* nothing; a deletion becomes pending only by the Delete key on a selected
\* live or recoverable session
C35_ModalConfirmation ==
    [][/\ C35_Pending =>
            /\ \A key \in C35_ConfirmKeys :
                    KeyEvent(key, SpecRand) =>
                        /\ session_manager'.pending_deletion = None
                        /\ C35_KillCall /\ C35_SameSessions /\ C35_RestUnchanged
            /\ \A key \in C35_CancelKeys :
                    KeyEvent(key, SpecRand) =>
                        /\ session_manager'.pending_deletion = None
                        /\ host_calls' = <<>> /\ C35_SameSessions /\ C35_RestUnchanged
            /\ \A key \in C35_OtherKeys :
                    KeyEvent(key, SpecRand) =>
                        /\ session_manager' = session_manager
                        /\ host_calls' = <<>> /\ C35_RestUnchanged
       /\ (session_manager.pending_deletion = None
           /\ session_manager'.pending_deletion # None) =>
                (PressDelete /\ error = None /\ C35_SessionSelected)]_vars

\* The deletion of the recoverable session is pending, with no error shown
C35_Witness ==
    /\ error = None
    /\ session_manager.pending_deletion = Some(<<"z", "z", ".", "2">>)
    /\ zoxide_directories # <<>>


C38_NoSwitch ==
    \A i \in 1..Len(host_calls') : host_calls'[i].op # "switch_session"

\* What Enter does for the selected item of the state before the key
C38_Dispatched ==
    With(selected_item(Cur), LAMBDA selected :
        IF selected = None
        THEN /\ host_calls' = <<>>
             /\ UNCHANGED <<config, session_manager, zoxide_directories, search_engine,
                            new_session_info, active_screen, error,
                            current_session_name, request_ids, selected_index>>
        ELSE IF IsSessionLike(Unwrap(selected))
        THEN /\ \E i \in 1..Len(host_calls') :
                    host_calls'[i] = [op |-> "switch_session",
                                      name |-> Unwrap(selected).name]
             /\ active_screen' = "Main"
        ELSE /\ C38_NoSwitch
             /\ new_session_info'.name =
                    generate_incremented_name(Unwrap(selected).session_name,
                                              config.session_separator, SpecRand.token)
             /\ new_session_info'.new_session_folder = Some(Unwrap(selected).path)
             /\ active_screen' = "NewSession")

\* C38 as stated: Enter on the main screen switches to the selected session,
\* opens the new-session screen for the selected directory, and changes
\* nothing when no item is selected
C38_EnterDispatches ==
    [][(PressEnter /\ ~panicked /\ active_screen = "Main") => C38_Dispatched]_vars

\* C38, amended: the same, when no error is shown and no deletion awaits its
\* confirmation
C38_EnterDispatchesWhenNotModal ==
    [][(/\ PressEnter /\ ~panicked /\ active_screen = "Main"
        /\ error = None /\ session_manager.pending_deletion = None)
            => C38_Dispatched]_vars

\* Enter switched to the live session zz
C38_Witness ==
    /\ Len(host_calls) = 2
    /\ host_calls[1] = [op |-> "switch_session", name |-> <<"z", "z">>]
    /\ active_screen = "Main"
    /\ error = None

(***************************************************************************)
(* SpecErrors: the main screen of Spec, with ranking refreshes that fail   *)
(* and results of other commands arriving while the user searches.         *)
(***************************************************************************)

ErrorsNext ==
    \/ Refresh \/ Sessions \/ MoveUp \/ MoveDown \/ TypeChar \/ Backspace \/ Escape
    \/ RefreshFailed \/ OtherCommandResult

SpecErrors == Init /\ [][ErrorsNext]_vars

C24_Unchanged ==
    /\ zoxide_directories' = zoxide_directories
    /\ search_engine' = search_engine
    /\ selected_index' = selected_index

\* C24: a result of the zoxide query with a non-zero or missing exit code
\* sets an error message and leaves the candidates, the query, the search
\* results and both selection indices as they were; a result whose context
\* lacks the zoxide_query key changes no state at all
C24_FailedRefresh ==
    [][/\ RefreshFailed => (IsSome(error') /\ C24_Unchanged)
       /\ OtherCommandResult =>
            UNCHANGED <<config, session_manager, zoxide_directories, search_engine,
                        new_session_info, active_screen, error,
                        current_session_name, request_ids, selected_index,
                        panicked>>]_vars

C24_Witness ==
    /\ error = Some("Failed to run zoxide (is it installed?): " \o ScreenStderr)
    /\ zoxide_directories # <<>>
    /\ search_engine.search_term # <<>>
    /\ search_engine.results # <<>>
    /\ IsSome(search_engine.selected_index)
    /\ IsSome(selected_index)

(***************************************************************************)
(* SpecRefresh: ranking refreshes one after the other, on each output made *)
(* of at most MaxOutputLines lines of RefreshLines, well-formed or not;    *)
(* some refreshes fail, and a key dismisses the error.                     *)
(***************************************************************************)

MaxOutputLines == 2

\* "9.5 /c/zz", "3 /b c " (a space at the end), " 2  /l" (a space in front,
\* two spaces after the number), "x /a", the empty line and "4"
RefreshLines ==
    { <<"9", ".", "5", " ", "/", "c", "/", "z", "z">>,
      <<"3", " ", "/", "b", " ", "c", " ">>,
      <<" ", "2", " ", " ", "/", "l">>,
      <<"x", " ", "/", "a">>,
      <<>>,
      <<"4">> }

RefreshOutputs == {JoinLines(q) : q \in DistinctSeqs(RefreshLines, MaxOutputLines)}

RefreshInit ==
    /\ InitialState(DefaultState(<<>>))
    /\ call = [op |-> "none"]

RefreshOutput ==
    \E output \in RefreshOutputs :
        /\ call' = [op |-> "RunCommandResult", stdout |-> output, done |-> TRUE]
        /\ RunCommandResult(Some(0), output, "", TRUE)

RefreshNext == RefreshOutput \/ RefreshFailed \/ PressEsc

SpecRefresh == RefreshInit /\ [][RefreshNext]_vars

\* The (ranking, directory) pairs of the lines "<number> <rest>" among the
\* given lines, one per position
C25_Pairs(lines) ==
    { <<i, ParseF64(SplitN2(lines[i])[1])[1], SplitN2(lines[i])[2]>> :
        i \in { j \in 1..Len(lines) :
                    /\ Len(SplitN2(lines[j])) = 2
                    /\ IsSome(ParseF64(SplitN2(lines[j])[1])) } }

C25_Trimmed(lines) == [i \in 1..Len(lines) |-> Trim(lines[i])]

\* The stored candidates are these pairs, one candidate per pair
C25_Stored(directories, pairs) ==
    /\ Len(directories) = Cardinality(pairs)
    /\ \A p \in pairs :
            \E i \in 1..Len(directories) :
                directories[i].ranking = p[2] /\ directories[i].directory = p[3]
    /\ \A i \in 1..Len(directories) :
            \E p \in pairs :
                directories[i].ranking = p[2] /\ directories[i].directory = p[3]

\* C25 as stated: a successful refresh stores exactly one candidate per line
\* "<number> <rest>" of the output, its directory the whole rest of the line,
\* drops every other line and sets no error, whatever was stored before
C25_RefreshReplacesCandidates ==
    [][RefreshOutput =>
            /\ C25_Stored(zoxide_directories', C25_Pairs(Lines(call'.stdout)))
            /\ error' = error]_vars

\* C25, amended: the lines are those of the output with the white space at
\* both ends removed
C25_RefreshReplacesWithTrimmedLines ==
    [][RefreshOutput =>
            /\ C25_Stored(zoxide_directories',
                          C25_Pairs(C25_Trimmed(Lines(call'.stdout))))
            /\ error' = error]_vars

\* The output "x /a", "3 /b c " has been stored while an error was shown
C25_Witness ==
    /\ call = [op |-> "RunCommandResult", done |-> TRUE,
               stdout |-> <<"x", " ", "/", "a", "\n",
                            "3", " ", "/", "b", " ", "c", " ", "\n">>]
    /\ Len(zoxide_directories) = 1
    /\ zoxide_directories[1].directory = <<"/", "b", " ", "c">>
    /\ IsSome(error)

(***************************************************************************)
(* SpecNested: one ranking refresh on each output made of at most MaxLines *)
(* lines of NestedLines, candidates nested in one another with short and   *)
(* with long segments.                                                     *)
(***************************************************************************)

\* Two segments of eight one-letter parts: abbreviate_segment leaves them
\* as they are, 15 bytes each
ParentParts ==
    <<"a", "-", "b", "-", "c", "-", "d", "-", "e", "-", "f", "-", "g", "-", "h">>
ChildParts ==
    <<"i", "-", "j", "-", "k", "-", "l", "-", "m", "-", "n", "-", "o", "-", "p">>

NestedLines ==
    { <<"9", " ", "/">> \o ParentParts,
      <<"8", " ", "/">> \o ParentParts \o <<"/">> \o ChildParts,
      <<"7", " ", "/", "c", "/", "p", "r", "j">>,
      <<"6", " ", "/", "c", "/", "p", "r", "j", "/", "f", "e">>,
      <<"5", " ", "/", "w", "o", "r", "k">>,
      <<"4", " ", "/", "w", "o", "r", "k", "/">> \o LongSegment }

NestedOutputs == {JoinLines(q) : q \in DistinctSeqs(NestedLines, MaxLines)}

NestedConfigurations ==
    { <<>>,
      "session_separator" :> <<"-", "-">> }

NestedInit ==
    \E configuration \in NestedConfigurations, output \in NestedOutputs :
        /\ InitialState(DefaultState(configuration))
        /\ call = [op |-> "RunCommandResult", stdout |-> output, done |-> FALSE]

SpecNested == NestedInit /\ [][NamingRefresh]_vars

\* The names built from the last k segments, each in full or abbreviated,
\* joined by the separator, and their cuts at the length limit
C30_Built(segments, k) ==
    UNION { { Join([m \in 1..k |->
                        IF pick[m] THEN abbreviate_segment(LastK(segments, k)[m])
                        ELSE LastK(segments, k)[m]],
                   config.session_separator),
              TruncateBytes(Join([m \in 1..k |->
                                     IF pick[m]
                                     THEN abbreviate_segment(LastK(segments, k)[m])
                                     ELSE LastK(segments, k)[m]],
                                 config.session_separator),
                            max_length) } :
            pick \in [1..k -> BOOLEAN] }

\* C30: a nested candidate whose normalized path has at least 2 segments is
\* named from at least 2 of its trailing segments, in full or abbreviated,
\* also when the name went through the truncation
C30_NestedKeepsParentAndChild ==
    NamesAssigned =>
        \A i \in 1..Len(zoxide_directories) :
            (C17_Nested(i) /\ C18_SegmentCount(i) >= 2) =>
                \E k \in 2..C18_SegmentCount(i) :
                    zoxide_directories[i].session_name
                        \in C30_Built(Segments(normalize_path(
                                          zoxide_directories[i].directory)), k)

(***************************************************************************)
(* SpecPipe: the new-session screen, the file picker launched with Ctrl+f  *)
(* and the messages piped to the plugin.                                   *)
(***************************************************************************)

MaxRequests == 2

\* The texts Uuid::new_v4 gives, and one that it never gave
IssuedIds == {"uuid-1", "uuid-2"}

UnknownId == "uuid-9"

\* The selected paths with what the file system may hold there
PipeSelections ==
    { <<<<"/", "c", "/", "z", "z">>, "directory">>,
      <<<<"/", "c", "/", "z", "z">>, "missing">>,
      <<<<"/", "c", "/", "f", ".", "r", "s">>, "file">>,
      <<<<"/", "c", "/", "f", ".", "r", "s">>, "missing">>,
      <<<<"/", "c", "/", ".", "g", "i", "t">>, "directory">>,
      <<<<"/", "c", "/", ".", "g", "i", "t">>, "missing">>,
      <<<<"f", ".", "r", "s">>, "missing">>,
      <<<<"/">>, "directory">>,
      <<<<>>, "missing">> }

PipeMessages ==
    { PipeMessage(name, payload, request_id) :
        name \in {"filepicker_result", "other"},
        payload \in {None} \cup {Some(s[1]) : s \in PipeSelections},
        request_id \in {None} \cup {Some(id) : id \in IssuedIds \cup {UnknownId}} }

CtrlKey(c) == KeyOf(<<"Char", c>>, {"Ctrl"})

PressCtrlF ==
    \E id \in IssuedIds :
        /\ Len(request_ids) < MaxRequests
        /\ KeyEvent(CtrlKey("f"), Rand(SpecRand.token, id))
        /\ UNCHANGED call

PressCtrlC == KeyEvent(CtrlKey("c"), SpecRand) /\ UNCHANGED call

PipeResult ==
    \E pipe_message \in PipeMessages, kind \in {"file", "directory", "missing"} :
        /\ IsSome(pipe_message.payload) =>
               <<Unwrap(pipe_message.payload), kind>> \in PipeSelections
        /\ Pipe(pipe_message, kind)
        /\ UNCHANGED call

PipeNext ==
    \/ RefreshSucceeded \/ PressDown \/ PressEnter \/ PressEsc
    \/ PressCtrlF \/ PressCtrlC \/ PipeResult

SpecPipe == ScreensInit /\ [][PipeNext]_vars

C36_Kinds == {"file", "directory", "missing"}

C36_Holds(ids, id) == \E i \in 1..Len(ids) : ids[i] = id

\* The message carries a payload and the id of a request that is in flight
C36_Accepted(pipe_message) ==
    /\ pipe_message.name = "filepicker_result"
    /\ IsSome(pipe_message.payload)
    /\ IsSome(pipe_message.request_id)
    /\ C36_Holds(request_ids, Unwrap(pipe_message.request_id))

\* What pipe does with each message in the current state: an accepted message
\* consumes its id, so that the same message again changes nothing; any other
\* message leaves the folder and the requests in flight as they are
C36_PipeEffect ==
    \A pipe_message \in PipeMessages, kind \in C36_Kinds :
        With(pipe(Start, pipe_message, kind), LAMBDA n :
            IF C36_Accepted(pipe_message)
            THEN /\ ~C36_Holds(n.request_ids, Unwrap(pipe_message.request_id))
                 /\ \A again \in C36_Kinds : pipe(n, pipe_message, again) = n
            ELSE /\ n.new_session_info.new_session_folder
                        = new_session_info.new_session_folder
                 /\ n.request_ids = request_ids)

\* A request id comes in flight only by a launch of the file picker with it
C36_IssuedByFilepicker ==
    \A id \in IssuedIds \cup {UnknownId} :
        (C36_Holds(request_ids', id) /\ request_ids' # request_ids) =>
            \/ C36_Holds(request_ids, id) /\ Len(request_ids') < Len(request_ids)
            \/ /\ request_ids' = Append(request_ids, request_ids'[Len(request_ids')])
               /\ (id = request_ids'[Len(request_ids')] \/ C36_Holds(request_ids, id))
               /\ \E i \in 1..Len(host_calls') :
                     /\ host_calls'[i].op = "pipe_message_to_plugin"
                     /\ host_calls'[i].request_id = request_ids'[Len(request_ids')]

\* C36: a filepicker_result message changes the new-session folder only when it
\* carries a payload and a request id that launch_filepicker issued and that
\* no earlier message consumed; the accepted message consumes the id, and the
\* same message again, a message with an unknown or missing id or without a
\* payload, leaves the folder unchanged
C36_FilepickerResultOnce ==
    [](C36_PipeEffect) /\ [][C36_IssuedByFilepicker]_vars

\* A result was accepted: the folder is the parent of the selected file and
\* the request is no longer in flight, while another one still is
C36_Witness ==
    /\ new_session_info.new_session_folder = Some(<<"/", "c">>)
    /\ request_ids = <<"uuid-2">>
    /\ active_screen = "NewSession"

(***************************************************************************)
(* SpecOrder: one ranking refresh on each output made of at most           *)
(* MaxCandidates of the lines of OrderLines, in each of their orders.      *)
(***************************************************************************)

MaxCandidates == 3

OrderLines ==
    { <<"1", "0", " ", "/", "w", "/", "a", "p", "i">>,
      <<"6", " ", "/", "p", "/", "w", "/", "a", "p", "i">>,
      <<"5", " ", "/", "p", "/", "a", "p", "i">>,
      <<"8", " ", "/", "w">> }

OrderOutputs == {JoinLines(q) : q \in DistinctSeqs(OrderLines, MaxCandidates)}

OrderConfigurations ==
    { <<>>,
      ("session_separator" :> <<"-">>) @@ ("base_paths" :> <<"/", "p">>) }

OrderInit ==
    \E configuration \in OrderConfigurations, output \in OrderOutputs :
        /\ InitialState(DefaultState(configuration))
        /\ call = [op |-> "RunCommandResult", stdout |-> output, done |-> FALSE]

SpecOrder == OrderInit /\ [][NamingRefresh]_vars

\* The orders of n things
C39_Orders(n) ==
    {p \in [1..n -> 1..n] : \A i, j \in 1..n : i # j => p[i] # p[j]}

\* The candidates of the output, as listed
C39_Listed == ParseLines(Lines(call.stdout))

\* C39: the name of a candidate depends on the set of the candidate paths and
\* on the configuration only: for every order of the candidates in the list
\* and every order in which the names are assigned, each path gets the name
\* that the refresh gave it
C39_NamesIndependentOfOrder ==
    (call.op = "RunCommandResult" /\ call.done) =>
        With(C39_Listed, LAMBDA listed :
        With(generate_smart_session_names(listed), LAMBDA named :
            /\ ~panicked =>
                   \A i \in 1..Len(named) :
                       \E j \in 1..Len(zoxide_directories) : zoxide_directories[j] = named[i]
            /\ \A p \in C39_Orders(Len(listed)), q \in C39_Orders(Len(listed)) :
                   With(AssignInOrder([k \in 1..Len(listed) |-> listed[p[k]]], q),
                        LAMBDA renamed :
                            \A k \in 1..Len(listed) :
                                renamed[k].session_name = named[p[k]].session_name)))

\* MaxCandidates candidates were named, two of them with the same basename
\* and different names
C39_Witness ==
    /\ NamesAssigned
    /\ Len(zoxide_directories) = MaxCandidates
    /\ \E i, j \in 1..Len(zoxide_directories) :
          /\ i # j
          /\ FileName(zoxide_directories[i].directory)
                = FileName(zoxide_directories[j].directory)
          /\ zoxide_directories[i].session_name # zoxide_directories[j].session_name

====
